---- MODULE Spec2Model ----
(***************************************************************************)
(* A model of the tree-walking interpreter of the tiny language            *)
(* (src/py/interpreter_3.py) driven by the read-eval-print loop of         *)
(* src/py/main.py.                                                         *)
(*                                                                         *)
(* The interpreter is a recursive evaluator; its Python call stack is      *)
(* modelled by recursive operators that thread the interpreter state I     *)
(* (a record) through every evaluation, exactly in the order of the        *)
(* source.  A Python exception in flight is the field I.exc:               *)
(*   "none"           no exception                                         *)
(*   "Break", "Continue", "Return"   the three control-flow signals        *)
(*   "TinyException"  the language-level exception of raise / assert       *)
(*   "Exception"      every other host exception (Exception, TypeError,    *)
(*                    IndexError, RuntimeError ...), none of which is a    *)
(*                    TinyException                                        *)
(* I.val is the value of the expression just evaluated, or the value       *)
(* carried by a ReturnException; I.msg is the message of the exception.    *)
(* try/finally of the source is modelled by running the body, then         *)
(* applying the finally clause to the result whatever I.exc is.            *)
(***************************************************************************)
EXTENDS Integers, Sequences, FiniteSets, TLC

VARIABLES
    envs,          \* the Environment objects ever created; an index is an identity
    current_env,   \* Interpreter.current_env
    this_stack,    \* Interpreter.this_stack (heap addresses of ClassInstance)
    heap,          \* list, dict, Function, ClassValue and ClassInstance objects
    out,           \* what the latest line wrote to standard output
    log,           \* history: the events of the latest line (see Note)
    last,          \* history: how the latest line ended, [exc, msg]
    nlines,        \* number of lines read so far
    running,       \* FALSE once the loop was left with `exit`
    family,        \* the family of programs the session's lines are drawn from
    parsers,       \* the Parser objects: self.tokens, self.pos, parse()'s result
    written,       \* history: the text the Parser objects were given
    lexer          \* the Lexer object, and how tokenize ended

vars ==
    <<envs, current_env, this_stack, heap, out, log, last, nlines, running,
      family, parsers, written, lexer>>

(***************************************************************************)
(* Bounds of the model.                                                    *)
(***************************************************************************)
MaxLines == 2

\* The longest array, string or dict of the model's programs
MaxLen == 2

\* The largest number (in absolute value) of the model's programs
MaxInt == 7
MaxPieces == 3

(***************************************************************************)
(* Values.  Every value is a record of the same shape so that any two      *)
(* values can be compared.  A bool is an int in Python (True == 1), so     *)
(* both carry their number in n.  Compound values are references into     *)
(* heap.                                                                   *)
(***************************************************************************)
IntV(i) == [t |-> "int", n |-> i, s |-> ""]

BoolV(b) == [t |-> "bool", n |-> IF b THEN 1 ELSE 0, s |-> ""]

NoneV == [t |-> "None", n |-> 0, s |-> ""]

StrV(str) == [t |-> "str", n |-> 0, s |-> str]

RefV(kind, addr) == [t |-> kind, n |-> addr, s |-> ""]

BuiltinV(name) == [t |-> "builtin", n |-> 0, s |-> name]

BoundMethodV(addr, name) == [t |-> "bound_method", n |-> addr, s |-> name]

IsNumber(v) == v.t \in {"int", "bool"}

(***************************************************************************)
(* AST nodes (src/py/ast_nodes_2.py).  An absent Optional node is NoNode;  *)
(* an absent else_block is the empty list (the interpreter tests it with   *)
(* `elif node.else_block:`, which None and [] both fail).                  *)
(***************************************************************************)
NoNode == [type |-> "NoNode"]

IntLiteral(value) == [type |-> "IntLiteral", value |-> value]

StringLiteral(value) == [type |-> "StringLiteral", value |-> value]

BoolLiteral(value) == [type |-> "BoolLiteral", value |-> value]

NullLiteral == [type |-> "NullLiteral"]

ArrayLiteral(elements) == [type |-> "ArrayLiteral", elements |-> elements]

DictLiteral(pairs) == [type |-> "DictLiteral", pairs |-> pairs]

Identifier(name) == [type |-> "Identifier", name |-> name]

BinaryOp(left, operator, right) ==
    [type |-> "BinaryOp", left |-> left, operator |-> operator, right |-> right]

UnaryOp(operator, operand) ==
    [type |-> "UnaryOp", operator |-> operator, operand |-> operand]

IndexAccess(object, index) ==
    [type |-> "IndexAccess", object |-> object, index |-> index]

SliceAccess(object, start, end) ==
    [type |-> "SliceAccess", object |-> object, start |-> start, end |-> end]

VarDeclaration(name, value) ==
    [type |-> "VarDeclaration", name |-> name, value |-> value]

Assignment(target, value) ==
    [type |-> "Assignment", target |-> target, value |-> value]

FunctionDef(name, params, body) ==
    [type |-> "FunctionDef", name |-> name, params |-> params, body |-> body]

FunctionCall(name, arguments) ==
    [type |-> "FunctionCall", name |-> name, arguments |-> arguments]

MethodCall(object, method, arguments) ==
    [type |-> "MethodCall", object |-> object, method |-> method,
     arguments |-> arguments]

MemberAccess(object, member) ==
    [type |-> "MemberAccess", object |-> object, member |-> member]

Return(value) == [type |-> "Return", value |-> value]

IfStatement(condition, then_block, else_block) ==
    [type |-> "IfStatement", condition |-> condition,
     then_block |-> then_block, else_block |-> else_block]

WhileStatement(condition, body) ==
    [type |-> "WhileStatement", condition |-> condition, body |-> body]

ForeachStatement(key_var, value_var, collection, body) ==
    [type |-> "ForeachStatement", key_var |-> key_var, value_var |-> value_var,
     collection |-> collection, body |-> body]

\* The node Parser.parse_for_statement builds for `for (i = start .. end)`;
\* its class is not among those of ast_nodes_2.py, the fields are those the
\* language description lists: ForStatement(var, start, end, body).
ForStatement(var, start, end, body) ==
    [type |-> "ForStatement", var |-> var, start |-> start, end |-> end,
     body |-> body]

Break == [type |-> "Break"]

Continue == [type |-> "Continue"]

ClassDef(name, members, methods) ==
    [type |-> "ClassDef", name |-> name, members |-> members, methods |-> methods]

NewExpression(class_name, arguments) ==
    [type |-> "NewExpression", class_name |-> class_name, arguments |-> arguments]

TryCatch(try_block, catch_var, catch_block) ==
    [type |-> "TryCatch", try_block |-> try_block, catch_var |-> catch_var,
     catch_block |-> catch_block]

\* Raise and the assert node carry the file and line that
\* Parser.attach_meta sets on them.
Raise(expr, file, line) ==
    [type |-> "Raise", expr |-> expr, file |-> file, line |-> line]

AssertNode(expr, msg, file, line) ==
    [type |-> "Assert", expr |-> expr, msg |-> msg, file |-> file, line |-> line]

Program(statements) == [type |-> "Program", statements |-> statements]

(***************************************************************************)
(* class Environment                                                       *)
(***************************************************************************)
\* Environment.__init__: the object is appended to envs; parent 0 is None.
Environment(parent) == [parent |-> parent, variables |-> <<>>]

Binds(env, name) == name \in DOMAIN env.variables

\* Environment.define
define(E, e, name, value) ==
    [E EXCEPT ![e].variables =
        [x \in (DOMAIN @) \cup {name} |-> IF x = name THEN value ELSE @[x]]]

\* Environment.get: [ok, val]; ok = FALSE is "Undefined variable".
RECURSIVE get(_, _, _)
get(E, e, name) ==
    IF Binds(E[e], name) THEN [ok |-> TRUE, val |-> E[e].variables[name]]
    ELSE IF E[e].parent # 0 THEN get(E, E[e].parent, name)
    ELSE [ok |-> FALSE, val |-> NoneV]

\* Environment.get for every name at once: the bindings visible from
\* frame e, the nearest binding of each name.
RECURSIVE Visible(_, _)
Visible(E, e) ==
    IF E[e].parent = 0 THEN E[e].variables
    ELSE E[e].variables @@ Visible(E, E[e].parent)

\* A mutant of Environment.set: assignment to an unbound name creates it
\* in the root frame.
RECURSIVE set_creates(_, _, _, _)
set_creates(E, e, name, value) ==
    IF Binds(E[e], name) THEN [ok |-> TRUE, envs |-> define(E, e, name, value)]
    ELSE IF E[e].parent # 0 THEN set_creates(E, E[e].parent, name, value)
    ELSE [ok |-> TRUE, envs |-> define(E, e, name, value)]

\* Environment.set: [ok, envs]; ok = FALSE is "Undefined variable".
RECURSIVE set(_, _, _, _)
set(E, e, name, value) ==
    IF Binds(E[e], name)
    THEN [ok |-> TRUE, envs |-> [E EXCEPT ![e].variables[name] = value]]
    ELSE IF E[e].parent # 0 THEN set(E, E[e].parent, name, value)
    ELSE [ok |-> FALSE, envs |-> E]

(***************************************************************************)
(* class Interpreter: values                                               *)
(***************************************************************************)
\* Interpreter.is_truthy
is_truthy(H, value) ==
    IF value.t = "bool" THEN value.n = 1
    ELSE IF value.t = "None" THEN FALSE
    ELSE IF value.t = "int" THEN value.n # 0
    ELSE IF value.t = "str" THEN value.s # ""
    ELSE IF value.t \in {"list", "dict"} THEN Len(H[value.n].items) > 0
    ELSE TRUE

\* Python's str() of a value, as used by to_string, print and `+` on a
\* string.  The text of a compound value is not modelled: the evaluation
\* of a program that prints one is undefined in the model (TLC stops).
to_string(value) ==
    CASE value.t = "str" -> value.s
      [] value.t = "int" -> ToString(value.n)
      [] value.t = "bool" -> IF value.n = 1 THEN "True" ELSE "False"
      [] value.t = "None" -> "None"

\* Python's == on two values: numbers (int and bool) by their number,
\* strings and None by value, every object without __eq__ by identity.
\* Equality of two lists or dicts is not modelled.
PyEq(left, right) ==
    CASE IsNumber(left) /\ IsNumber(right) -> left.n = right.n
      [] left.t # right.t -> FALSE
      [] left.t \in {"str", "None", "builtin", "bound_method",
                     "Function", "ClassValue", "ClassInstance"} -> left = right

\* A mutant of //: the quotient is rounded toward zero.
FloorDiv_toward_zero(a, b) ==
    LET q == (IF a < 0 THEN -a ELSE a) \div (IF b < 0 THEN -b ELSE b)
    IN  IF (a < 0) = (b < 0) THEN q ELSE -q

\* Python's // and % on integers (floor division, sign of the divisor).
FloorDiv(a, b) == IF b > 0 THEN a \div b ELSE (-a) \div (-b)

PyMod(a, b) == a - b * FloorDiv(a, b)

\* The outcome of a host operation: a value, or a host exception.
Value(v) == [exc |-> "none", val |-> v, msg |-> ""]

HostError(msg) == [exc |-> "Exception", val |-> NoneV, msg |-> msg]

\* The characters of the strings that the model's programs take apart
\* (member names, operands of `in`, sliced strings).
Spelling ==
    ("_v" :> <<"_", "v">>) @@ ("_m" :> <<"_", "m">>) @@ ("v" :> <<"v">>)
    @@ ("m" :> <<"m">>) @@ ("init" :> <<"i", "n", "i", "t">>)
    @@ ("peek" :> <<"p", "e", "e", "k">>) @@ ("poke" :> <<"p", "o", "k", "e">>)
    @@ ("call" :> <<"c", "a", "l", "l">>) @@ ("via" :> <<"v", "i", "a">>)
    @@ ("free" :> <<"f", "r", "e", "e">>)
    @@ ("" :> <<>>) @@ ("a" :> <<"a">>) @@ ("b" :> <<"b">>) @@ ("c" :> <<"c">>)
    @@ ("ab" :> <<"a", "b">>) @@ ("ba" :> <<"b", "a">>)
    @@ ("bc" :> <<"b", "c">>) @@ ("abc" :> <<"a", "b", "c">>)

\* The string of a sequence of characters
RECURSIVE Text(_)
Text(chars) == IF Len(chars) = 0 THEN "" ELSE chars[1] \o Text(Tail(chars))

\* The host's `left in right` on two strings: left is a substring of right
is_substring(left, right) ==
    \E k \in 0..(Len(Spelling[right]) - Len(Spelling[left])) :
        SubSeq(Spelling[right], k + 1, k + Len(Spelling[left])) = Spelling[left]

\* The host's text of type(value), as the error messages show it
type_name(value) ==
    CASE value.t = "int" -> "<class 'int'>"
      [] value.t = "bool" -> "<class 'bool'>"
      [] value.t = "str" -> "<class 'str'>"
      [] value.t = "None" -> "<class 'NoneType'>"
      [] value.t = "list" -> "<class 'list'>"
      [] value.t = "dict" -> "<class 'dict'>"

\* Interpreter.eval_binary_op.  Operand types the host rejects raise
\* TypeError; the host's `*` on a string or list and the ordering of
\* strings are not modelled.
eval_binary_op(H, left, op, right) ==
    CASE op = "+" ->
            IF left.t = "str" \/ right.t = "str"
            THEN Value(StrV(to_string(left) \o to_string(right)))
            ELSE IF IsNumber(left) /\ IsNumber(right)
            THEN Value(IntV(left.n + right.n))
            ELSE HostError("unsupported operand type(s) for +")
      [] op = "-" ->
            IF IsNumber(left) /\ IsNumber(right)
            THEN Value(IntV(left.n - right.n))
            ELSE HostError("unsupported operand type(s) for -")
      [] op = "*" /\ IsNumber(left) /\ IsNumber(right) ->
            Value(IntV(left.n * right.n))
      [] op = "/" ->
            IF IsNumber(right) /\ right.n = 0
            THEN HostError("Division by zero")
            ELSE IF IsNumber(left) /\ IsNumber(right)
            THEN Value(IntV(FloorDiv(left.n, right.n)))
            ELSE HostError("unsupported operand type(s) for /")
      [] op = "%" /\ IsNumber(left) ->
            IF IsNumber(right) /\ right.n = 0
            THEN HostError("Modulo by zero")
            ELSE IF IsNumber(right)
            THEN Value(IntV(PyMod(left.n, right.n)))
            ELSE HostError("unsupported operand type(s) for %")
      [] op = "==" -> Value(BoolV(PyEq(left, right)))
      [] op = "!=" -> Value(BoolV(~PyEq(left, right)))
      [] op \in {"<", "<=", ">", ">="} /\ ~(left.t = "str" /\ right.t = "str") ->
            IF IsNumber(left) /\ IsNumber(right)
            THEN Value(BoolV(CASE op = "<" -> left.n < right.n
                               [] op = "<=" -> left.n <= right.n
                               [] op = ">" -> left.n > right.n
                               [] op = ">=" -> left.n >= right.n))
            ELSE HostError("ordering not supported between these types")
      [] op = "and" -> Value(BoolV(is_truthy(H, left) /\ is_truthy(H, right)))
      [] op = "or" -> Value(BoolV(is_truthy(H, left) \/ is_truthy(H, right)))
      [] op = "in" ->
            IF right.t = "list"
            THEN Value(BoolV(\E k \in 1..Len(H[right.n].items) :
                                PyEq(left, H[right.n].items[k])))
            ELSE IF right.t = "dict"
            THEN IF left.t # "str"
                 THEN HostError("Dictionary keys for 'in' must be strings")
                 ELSE Value(BoolV(\E k \in 1..Len(H[right.n].keys) :
                                     H[right.n].keys[k] = left.s))
            ELSE IF right.t = "str"
            THEN IF left.t # "str"
                 THEN HostError("Substring for 'in' must be a string")
                 ELSE Value(BoolV(is_substring(left.s, right.s)))
            ELSE HostError("'in' not supported for " \o type_name(right))
      [] op \notin {"+", "-", "*", "/", "%", "==", "!=", "<", "<=", ">", ">=",
                    "and", "or", "in"} ->
            HostError("Unknown binary operator: " \o op)

\* Interpreter.eval_unary_op
eval_unary_op(H, op, operand) ==
    IF op = "-"
    THEN IF IsNumber(operand) THEN Value(IntV(-operand.n))
         ELSE HostError("bad operand type for unary -")
    ELSE IF op = "not" THEN Value(BoolV(~is_truthy(H, operand)))
    ELSE HostError("Unknown unary operator: " \o op)

(***************************************************************************)
(* class Interpreter: the evaluator                                        *)
(***************************************************************************)
Raised(I) == I.exc # "none"

\* raise <kind>(msg)
Throw(I, kind, msg) == [I EXCEPT !.exc = kind, !.msg = msg]

\* return v (of eval_expression)
Result(I, v) == [I EXCEPT !.val = v]

Lift(I, r) == IF r.exc = "none" THEN Result(I, r.val) ELSE Throw(I, r.exc, r.msg)

\* History only: append an event to the log.  No evaluation reads the log.
Note(I, event) == [I EXCEPT !.log = Append(@, event)]

Top(stack) == stack[Len(stack)]

Pop(stack) == SubSeq(stack, 1, Len(stack) - 1)

\* name.startswith('_')
is_private_name(name) == Spelling[name][1] = "_"

\* ClassValue.methods = {m.name: m for m in methods}: a later definition
\* of a name replaces an earlier one.  0 when the name is no method.
method_index(methods, name) ==
    LET S == {i \in 1..Len(methods) : methods[i].name = name}
    IN  IF S = {} THEN 0 ELSE CHOOSE i \in S : \A j \in S : j <= i

\* A mutant of is_internal_access: any executing method counts as internal.
is_internal_access_any(I, addr) == Len(I.this_stack) > 0

\* Interpreter.is_internal_access
is_internal_access(I, addr) ==
    Len(I.this_stack) > 0
    /\ I.heap[Top(I.this_stack)].class_value = I.heap[addr].class_value

\* print of the arguments: their texts joined by a blank
RECURSIVE joined(_)
joined(args) ==
    IF Len(args) = 0 THEN ""
    ELSE IF Len(args) = 1 THEN to_string(args[1])
    ELSE to_string(args[1]) \o " " \o joined(Tail(args))

RECURSIVE eval_statement(_, _)
RECURSIVE eval_expression(_, _)
RECURSIVE exec_statements(_, _, _)
RECURSIVE eval_arguments(_, _, _)
RECURSIVE eval_pairs(_, _, _, _)
RECURSIVE call_method(_, _, _, _)
RECURSIVE call_builtin(_, _, _)
RECURSIVE instantiate_class(_, _, _)
RECURSIVE init_members(_, _, _, _)
RECURSIVE while_loop(_, _)
RECURSIVE foreach_list(_, _, _, _)
RECURSIVE foreach_dict(_, _, _, _, _)

\* `x = <expression>` followed by statements that use x: the expression is
\* evaluated once and its value given to what follows.
Bind(R, K(_)) == K(R)

\* `for stmt in statements: self.eval_statement(stmt)`, from statement i on
exec_statements(I, statements, i) ==
    IF i > Len(statements) THEN I
    ELSE Bind(eval_statement(I, statements[i]), LAMBDA I1 :
            IF Raised(I1) THEN I1 ELSE exec_statements(I1, statements, i + 1))

\* `[self.eval_expression(arg) for arg in node.arguments]`: the values are
\* left in I.vals
eval_arguments(I, arguments, acc) ==
    IF Len(acc) = Len(arguments) THEN [I EXCEPT !.vals = acc]
    ELSE Bind(eval_expression(I, arguments[Len(acc) + 1]), LAMBDA I1 :
            IF Raised(I1) THEN I1
            ELSE eval_arguments(I1, arguments, Append(acc, I1.val)))

\* `for param, arg in zip(params, args): env.define(param, arg)` on frame e
RECURSIVE define_all(_, _, _, _)
define_all(E, e, names, values) ==
    IF Len(names) = 0 \/ Len(values) = 0 THEN E
    ELSE define_all(define(E, e, names[1], values[1]), e, Tail(names), Tail(values))

\* Interpreter._execute_block
execute_block(I, statements) ==
    LET prev_env == I.current_env
        I1 == [I EXCEPT !.envs = Append(@, Environment(prev_env)),
                        !.current_env = Len(I.envs) + 1]
    IN  Bind(exec_statements(I1, statements, 1), LAMBDA I2 :
          LET I3 == [I2 EXCEPT !.current_env = prev_env]          \* finally
          IN  Note(I3, [ev |-> "frame", c |-> "block", entry |-> prev_env,
                        exit |-> I3.current_env, how |-> I2.exc,
                        before |-> Visible(I.envs, prev_env),
                        after |-> Visible(I3.envs, prev_env)]))

\* d[k] = v on a Python dict used as a record of named values
Put(f, k, v) == [x \in (DOMAIN f) \cup {k} |-> IF x = k THEN v ELSE f[x]]

\* Interpreter.get_member
get_member(I, instance, name) ==
    IF instance.t # "ClassInstance"
    THEN Throw(I, "Exception", "Member access only valid on class instances")
    ELSE
    LET obj == I.heap[instance.n]
        cls == I.heap[obj.class_value]
        R == IF is_private_name(name) /\ ~is_internal_access(I, instance.n)
             THEN Throw(I, "Exception", "Cannot access private member '"
                           \o name \o "' of class " \o cls.name)
             ELSE IF name \in DOMAIN obj.fields
             THEN Result(I, obj.fields[name])
             ELSE IF method_index(cls.methods, name) # 0
             THEN Result(I, BoundMethodV(instance.n, name))
             ELSE Throw(I, "Exception", "Member '" \o name
                           \o "' not found on class " \o cls.name)
    IN  Note(R, [ev |-> "member", op |-> "get", name |-> name,
                 target |-> instance.n, stack |-> I.this_stack,
                 ok |-> ~Raised(R), before |-> obj.fields,
                 after |-> R.heap[instance.n].fields])

\* A mutant of set_member: a name that is not a field yet becomes one.
set_member_creates(I, instance, name, value) ==
    IF instance.t # "ClassInstance"
    THEN Throw(I, "Exception", "Member assignment only valid on class instances")
    ELSE
    LET obj == I.heap[instance.n]
        cls == I.heap[obj.class_value]
        R == IF is_private_name(name) /\ ~is_internal_access(I, instance.n)
             THEN Throw(I, "Exception", "Cannot access private member '"
                           \o name \o "' of class " \o cls.name)
             ELSE [I EXCEPT !.heap[instance.n].fields = Put(@, name, value)]
    IN  Note(R, [ev |-> "member", op |-> "set", name |-> name,
                 target |-> instance.n, stack |-> I.this_stack,
                 value |-> value,
                 ok |-> ~Raised(R), before |-> obj.fields,
                 after |-> R.heap[instance.n].fields])

\* Interpreter.set_member
set_member(I, instance, name, value) ==
    IF instance.t # "ClassInstance"
    THEN Throw(I, "Exception", "Member assignment only valid on class instances")
    ELSE
    LET obj == I.heap[instance.n]
        cls == I.heap[obj.class_value]
        R == IF is_private_name(name) /\ ~is_internal_access(I, instance.n)
             THEN Throw(I, "Exception", "Cannot access private member '"
                           \o name \o "' of class " \o cls.name)
             ELSE IF name \notin DOMAIN obj.fields
             THEN Throw(I, "Exception", "Member '" \o name
                           \o "' not defined on class " \o cls.name)
             ELSE [I EXCEPT !.heap[instance.n].fields[name] = value]
    IN  Note(R, [ev |-> "member", op |-> "set", name |-> name,
                 target |-> instance.n, stack |-> I.this_stack,
                 value |-> value,
                 ok |-> ~Raised(R), before |-> obj.fields,
                 after |-> R.heap[instance.n].fields])

\* `for member in class_value.members:
\*      instance.fields[member.name] = self.eval_expression(member.value)`
init_members(I, instance, members, i) ==
    IF i > Len(members) THEN I
    ELSE Bind(eval_expression(I, members[i].value), LAMBDA I1 :
            IF Raised(I1) THEN I1
            ELSE init_members(
                   [I1 EXCEPT !.heap[instance].fields =
                                  Put(@, members[i].name, I1.val)],
                   instance, members, i + 1))

\* A mutant of instantiate_class: the argument count is checked before the
\* member initializers run.
instantiate_class_checks_first(I, class_value, args) ==
    LET cls == I.heap[class_value]
        instance == Len(I.heap) + 1
        this == RefV("ClassInstance", instance)
        prev_env == I.current_env
        init_env == Len(I.envs) + 1
        init == method_index(cls.methods, "init")
        I1 == [I EXCEPT
                 !.heap = Append(@, [kind |-> "ClassInstance",
                                     class_value |-> class_value,
                                     fields |-> <<>>]),
                 !.envs = define_all(Append(@, Environment(cls.env)), init_env,
                                     <<"this", "self">>, <<this, this>>),
                 !.current_env = init_env,
                 !.this_stack = Append(@, instance)]
    IN  IF init # 0 /\ Len(args) # Len(cls.methods[init].params)
        THEN Throw(I, "Exception", "Constructor for " \o cls.name
                     \o " expects " \o ToString(Len(cls.methods[init].params))
                     \o " arguments, got " \o ToString(Len(args)))
        ELSE IF init = 0 /\ Len(args) > 0
        THEN Throw(I, "Exception", "Class " \o cls.name
                     \o " constructor does not take arguments")
        ELSE
        Bind(init_members(I1, instance, cls.members, 1), LAMBDA I2 :
        Bind([I2 EXCEPT !.this_stack = Pop(@),
                        !.current_env = prev_env], LAMBDA I3 :
        Bind(IF Raised(I3) THEN I3
             ELSE IF init # 0
             THEN Bind(call_method(I3, this, "init", args), LAMBDA I4 :
                    IF Raised(I4) THEN I4 ELSE Result(I4, this))
             ELSE Result(I3, this), LAMBDA R :
        Note(R, [ev |-> "frame", c |-> "new", entry |-> prev_env,
                 exit |-> R.current_env, how |-> R.exc,
                 receiver |-> instance, pushed |-> I1.this_stack,
                 stack_in |-> I.this_stack, stack_out |-> R.this_stack]))))

\* Interpreter.instantiate_class
instantiate_class(I, class_value, args) ==
    LET cls == I.heap[class_value]
        instance == Len(I.heap) + 1
        this == RefV("ClassInstance", instance)
        prev_env == I.current_env
        init_env == Len(I.envs) + 1
        init == method_index(cls.methods, "init")
        I1 == [I EXCEPT
                 !.heap = Append(@, [kind |-> "ClassInstance",
                                     class_value |-> class_value,
                                     fields |-> <<>>]),
                 !.envs = define_all(Append(@, Environment(cls.env)), init_env,
                                     <<"this", "self">>, <<this, this>>),
                 !.current_env = init_env,
                 !.this_stack = Append(@, instance)]
    IN  Bind(init_members(I1, instance, cls.members, 1), LAMBDA I2 :
        Bind([I2 EXCEPT !.this_stack = Pop(@),                  \* finally
                        !.current_env = prev_env], LAMBDA I3 :
        Bind(IF Raised(I3) THEN I3
             ELSE IF init # 0
             THEN IF Len(args) # Len(cls.methods[init].params)
                  THEN Throw(I3, "Exception", "Constructor for " \o cls.name
                               \o " expects "
                               \o ToString(Len(cls.methods[init].params))
                               \o " arguments, got " \o ToString(Len(args)))
                  ELSE Bind(call_method(I3, this, "init", args), LAMBDA I4 :
                         IF Raised(I4) THEN I4 ELSE Result(I4, this))
             ELSE IF Len(args) > 0
             THEN Throw(I3, "Exception", "Class " \o cls.name
                          \o " constructor does not take arguments")
             ELSE Result(I3, this), LAMBDA R :
        Note(R, [ev |-> "frame", c |-> "new", entry |-> prev_env,
                 exit |-> R.current_env, how |-> R.exc,
                 receiver |-> instance, pushed |-> I1.this_stack,
                 stack_in |-> I.this_stack, stack_out |-> R.this_stack]))))

\* A mutant of call_method: the receiver is popped only when the body
\* ends without an exception (no finally).
call_method_pops_on_success(I, instance, method_name, args) ==
    IF instance.t # "ClassInstance"
    THEN Throw(I, "Exception", "Method call only valid on class instances")
    ELSE
    LET obj == I.heap[instance.n]
        cls == I.heap[obj.class_value]
        m == method_index(cls.methods, method_name)
    IN
    IF m = 0
    THEN Throw(I, "Exception", "Method '" \o method_name
                 \o "' not found on class " \o cls.name)
    ELSE
    LET method_def == cls.methods[m]
        access == [ev |-> "member", op |-> "call", name |-> method_name,
                   target |-> instance.n, stack |-> I.this_stack,
                   before |-> obj.fields]
    IN
    IF is_private_name(method_name) /\ ~is_internal_access(I, instance.n)
    THEN Note(Throw(I, "Exception", "Cannot access private method '"
                      \o method_name \o "' of class " \o cls.name),
              access @@ [ok |-> FALSE, after |-> obj.fields])
    ELSE IF Len(args) # Len(method_def.params)
    THEN Throw(I, "Exception", "Method " \o method_name \o " expects "
                 \o ToString(Len(method_def.params)) \o " arguments, got "
                 \o ToString(Len(args)))
    ELSE
    LET func_env == Len(I.envs) + 1
        prev_env == I.current_env
        I1 == [I EXCEPT
                 !.envs = define_all(
                            define_all(Append(@, Environment(cls.env)), func_env,
                                       <<"this", "self">>, <<instance, instance>>),
                            func_env, method_def.params, args),
                 !.current_env = func_env,
                 !.this_stack = Append(@, instance.n)]
    IN  Bind(exec_statements(Note(I1, access @@ [ok |-> TRUE,
                                                 after |-> obj.fields]),
                             method_def.body, 1), LAMBDA I2 :
        Bind(IF I2.exc = "none" THEN Result(I2, NoneV)          \* return None
             ELSE IF I2.exc = "Return"                  \* except ReturnException
             THEN [I2 EXCEPT !.exc = "none"]                    \* return e.value
             ELSE I2, LAMBDA I3 :
        Bind([I3 EXCEPT !.this_stack = IF Raised(I3) THEN @ ELSE Pop(@),
                        !.current_env = prev_env], LAMBDA I4 :
        Note(I4, [ev |-> "frame", c |-> "method", entry |-> prev_env,
                  exit |-> I4.current_env, how |-> I2.exc,
                  returned |-> I2.val, result |-> I4.val, leaves |-> I4.exc,
                  receiver |-> instance.n, pushed |-> I1.this_stack,
                  stack_in |-> I.this_stack, stack_out |-> I4.this_stack]))))

\* Interpreter.call_method
call_method(I, instance, method_name, args) ==
    IF instance.t # "ClassInstance"
    THEN Throw(I, "Exception", "Method call only valid on class instances")
    ELSE
    LET obj == I.heap[instance.n]
        cls == I.heap[obj.class_value]
        m == method_index(cls.methods, method_name)
    IN
    IF m = 0
    THEN Throw(I, "Exception", "Method '" \o method_name
                 \o "' not found on class " \o cls.name)
    ELSE
    LET method_def == cls.methods[m]
        access == [ev |-> "member", op |-> "call", name |-> method_name,
                   target |-> instance.n, stack |-> I.this_stack,
                   before |-> obj.fields]
    IN
    IF is_private_name(method_name) /\ ~is_internal_access(I, instance.n)
    THEN Note(Throw(I, "Exception", "Cannot access private method '"
                      \o method_name \o "' of class " \o cls.name),
              access @@ [ok |-> FALSE, after |-> obj.fields])
    ELSE IF Len(args) # Len(method_def.params)
    THEN Throw(I, "Exception", "Method " \o method_name \o " expects "
                 \o ToString(Len(method_def.params)) \o " arguments, got "
                 \o ToString(Len(args)))
    ELSE
    LET func_env == Len(I.envs) + 1
        prev_env == I.current_env
        I1 == [I EXCEPT
                 !.envs = define_all(
                            define_all(Append(@, Environment(cls.env)), func_env,
                                       <<"this", "self">>, <<instance, instance>>),
                            func_env, method_def.params, args),
                 !.current_env = func_env,
                 !.this_stack = Append(@, instance.n)]
    IN  Bind(exec_statements(Note(I1, access @@ [ok |-> TRUE,
                                                 after |-> obj.fields]),
                             method_def.body, 1), LAMBDA I2 :
        Bind(IF I2.exc = "none" THEN Result(I2, NoneV)          \* return None
             ELSE IF I2.exc = "Return"                  \* except ReturnException
             THEN [I2 EXCEPT !.exc = "none"]                    \* return e.value
             ELSE I2, LAMBDA I3 :
        Bind([I3 EXCEPT !.this_stack = Pop(@),                  \* finally
                        !.current_env = prev_env], LAMBDA I4 :
        Note(I4, [ev |-> "frame", c |-> "method", entry |-> prev_env,
                  exit |-> I4.current_env, how |-> I2.exc,
                  returned |-> I2.val, result |-> I4.val, leaves |-> I4.exc,
                  receiver |-> instance.n, pushed |-> I1.this_stack,
                  stack_in |-> I.this_stack, stack_out |-> I4.this_stack]))))

\* The host callables of the global environment that the model's programs
\* use: println and len of setup_builtins, and the bound_method closure
\* that get_member returns.
call_builtin(I, func, args) ==
    CASE func.t = "bound_method" ->
            call_method(I, RefV("ClassInstance", func.n), func.s, args)
      [] func.t = "builtin" /\ func.s = "println" ->
            Result([I EXCEPT !.out = Append(@, joined(args))], NoneV)
      [] func.t = "builtin" /\ func.s = "len" ->
            IF Len(args) # 1
            THEN Throw(I, "Exception", "builtin_len() takes 1 positional argument")
            ELSE IF args[1].t \in {"list", "dict"}
            THEN Result(I, IntV(Len(I.heap[args[1].n].items)))
            ELSE IF args[1].t = "str"
            THEN Result(I, IntV(Len(args[1].s)))
            ELSE Throw(I, "Exception", "len() not supported for type")

\* A mutant of the WhileStatement branch: the loop ends on break but does
\* not absorb the signal.
while_loop_break_escapes(I, node) ==
    Bind(eval_expression(I, node.condition), LAMBDA I1 :
      IF Raised(I1) THEN I1
      ELSE IF ~is_truthy(I1.heap, I1.val) THEN I1
      ELSE Bind(execute_block(I1, node.body), LAMBDA I2 :
             IF I2.exc = "Continue"
             THEN while_loop([I2 EXCEPT !.exc = "none"], node)
             ELSE IF Raised(I2) THEN I2
             ELSE while_loop(I2, node)))

\* The WhileStatement branch of eval_statement: `while True: ...`
while_loop(I, node) ==
    Bind(eval_expression(I, node.condition), LAMBDA I1 :
      IF Raised(I1) THEN I1
      ELSE IF ~is_truthy(I1.heap, I1.val) THEN I1                   \* break
      ELSE Bind(execute_block(I1, node.body), LAMBDA I2 :
             IF I2.exc = "Break" THEN [I2 EXCEPT !.exc = "none"]
             ELSE IF I2.exc = "Continue"
             THEN while_loop([I2 EXCEPT !.exc = "none"], node)
             ELSE IF Raised(I2) THEN I2
             ELSE while_loop(I2, node)))

\* One iteration of the foreach loops: the inner try / except
\* ContinueException / finally around the body.
foreach_iteration(I, node, key, value) ==
    LET prev_env == I.current_env
        iter_env == Len(I.envs) + 1
        I1 == [I EXCEPT
                 !.envs = define_all(Append(@, Environment(prev_env)), iter_env,
                                     <<node.key_var, node.value_var>>,
                                     <<key, value>>),
                 !.current_env = iter_env]
    IN  Bind(exec_statements(I1, node.body, 1), LAMBDA I2 :
        Bind(IF I2.exc = "Continue" THEN [I2 EXCEPT !.exc = "none"] ELSE I2,
             LAMBDA I3 :
        Bind([I3 EXCEPT !.current_env = prev_env], LAMBDA I4 :     \* finally
        Note(I4, [ev |-> "frame", c |-> "foreach", entry |-> prev_env,
                  exit |-> I4.current_env, how |-> I2.exc,
                  frame |-> iter_env, made |-> Len(I.envs),
                  key |-> key, value |-> value,
                  before |-> Visible(I.envs, prev_env),
                  after |-> Visible(I4.envs, prev_env)]))))

\* A mutant of the array iteration: the keys count from one.
RECURSIVE foreach_list_from_one(_, _, _, _)
foreach_list_from_one(I, node, collection, idx) ==
    IF idx >= Len(I.heap[collection].items) THEN I
    ELSE Bind(foreach_iteration(I, node, IntV(idx + 1),
                                I.heap[collection].items[idx + 1]), LAMBDA I1 :
            IF I1.exc = "Break" THEN [I1 EXCEPT !.exc = "none"]
            ELSE IF Raised(I1) THEN I1
            ELSE foreach_list_from_one(I1, node, collection, idx + 1))

\* `for idx, value in enumerate(collection)` inside `try ... except
\* BreakException: pass`; the host iterator reads the live list.
foreach_list(I, node, collection, idx) ==
    IF idx >= Len(I.heap[collection].items) THEN I
    ELSE Bind(foreach_iteration(I, node, IntV(idx),
                                I.heap[collection].items[idx + 1]), LAMBDA I1 :
            IF I1.exc = "Break" THEN [I1 EXCEPT !.exc = "none"]
            ELSE IF Raised(I1) THEN I1
            ELSE foreach_list(I1, node, collection, idx + 1))

\* `for key, value in collection.items()` inside `try ... except
\* BreakException: pass`; the host iterator fails when the dict changed
\* its size.
foreach_dict(I, node, collection, idx, size) ==
    IF Len(I.heap[collection].items) # size
    THEN Throw(I, "Exception", "dictionary changed size during iteration")
    ELSE IF idx >= size THEN I
    ELSE Bind(foreach_iteration(I, node,
                                StrV(I.heap[collection].keys[idx + 1]),
                                I.heap[collection].items[idx + 1]), LAMBDA I1 :
            IF I1.exc = "Break" THEN [I1 EXCEPT !.exc = "none"]
            ELSE IF Raised(I1) THEN I1
            ELSE foreach_dict(I1, node, collection, idx + 1, size))

\* One iteration of the range loop: the loop variable is defined in a fresh
\* frame, the body runs in it, `continue` ends the iteration only, and the
\* frame is left however the body ends.
range_iteration(I, node, i) ==
    LET prev_env == I.current_env
        iter_env == Len(I.envs) + 1
        I1 == [I EXCEPT
                 !.envs = define(Append(@, Environment(prev_env)), iter_env,
                                 node.var, IntV(i)),
                 !.current_env = iter_env]
    IN  Bind(exec_statements(I1, node.body, 1), LAMBDA I2 :
        Bind(IF I2.exc = "Continue" THEN [I2 EXCEPT !.exc = "none"] ELSE I2,
             LAMBDA I3 :
        Bind([I3 EXCEPT !.current_env = prev_env], LAMBDA I4 :
        Note(I4, [ev |-> "frame", c |-> "range", entry |-> prev_env,
                  exit |-> I4.current_env, how |-> I2.exc,
                  frame |-> iter_env, made |-> Len(I.envs), value |-> i,
                  before |-> Visible(I.envs, prev_env),
                  after |-> Visible(I4.envs, prev_env)]))))

\* A mutant of the range loop: the end of the range is included.
RECURSIVE range_loop_inclusive(_, _, _, _)
range_loop_inclusive(I, node, i, end) ==
    IF i > end THEN I
    ELSE Bind(range_iteration(I, node, i), LAMBDA I1 :
            IF I1.exc = "Break" THEN [I1 EXCEPT !.exc = "none"]
            ELSE IF Raised(I1) THEN I1
            ELSE range_loop_inclusive(I1, node, i + 1, end))

\* The range loop from iteration i on: start inclusive, end exclusive, the
\* body not entered when start >= end; `break` ends the loop.
RECURSIVE range_loop(_, _, _, _)
range_loop(I, node, i, end) ==
    IF i >= end THEN I
    ELSE Bind(range_iteration(I, node, i), LAMBDA I1 :
            IF I1.exc = "Break" THEN [I1 EXCEPT !.exc = "none"]
            ELSE IF Raised(I1) THEN I1
            ELSE range_loop(I1, node, i + 1, end))

\* ForStatement: both bounds are evaluated once, start first; the range is
\* one of integers.
for_statement(I, node) ==
    Bind(eval_expression(I, node.start), LAMBDA I1 :
      IF Raised(I1) THEN I1
      ELSE Bind(eval_expression(I1, node.end), LAMBDA I2 :
             IF Raised(I2) THEN I2
             ELSE IF I1.val.t # "int" \/ I2.val.t # "int"
             THEN Throw(I2, "Exception", "for range bounds must be integers")
             ELSE range_loop(I2, node, I1.val.n, I2.val.n)))

\* A mutant of the TryCatch branch: the handler catches every exception,
\* the control-flow signals included.
try_catch_all(I, node) ==
    Bind(exec_statements(I, node.try_block, 1), LAMBDA I1 :
      IF I1.exc = "none"
      THEN Note(I1, [ev |-> "try", entry |-> I.current_env, raised |-> I1.exc,
                     msg |-> I1.msg, caught |-> FALSE, bound |-> NoneV,
                     carried |-> I1.val, leaves |-> I1.exc, result |-> I1.val,
                     before |-> Visible(I.envs, I.current_env),
                     after |-> Visible(I1.envs, I.current_env)])
      ELSE
      LET prev_env == I1.current_env
          catch_env == Len(I1.envs) + 1
          I2 == [I1 EXCEPT
                   !.exc = "none", !.msg = "",
                   !.envs = define(Append(@, Environment(prev_env)), catch_env,
                                   node.catch_var, StrV(I1.msg)),
                   !.current_env = catch_env]
      IN  Bind(exec_statements(I2, node.catch_block, 1), LAMBDA I3 :
          Bind(IF Raised(I3) THEN I3
               ELSE [I3 EXCEPT !.current_env = prev_env], LAMBDA I4 :
          Note(I4, [ev |-> "try", entry |-> I.current_env, raised |-> I1.exc,
                    msg |-> I1.msg, caught |-> TRUE,
                    bound |-> StrV(I1.msg),
                    carried |-> I1.val, leaves |-> I4.exc, result |-> I4.val,
                    before |-> Visible(I.envs, I.current_env),
                    after |-> Visible(I1.envs, I.current_env)]))))

\* The TryCatch branch of eval_statement
try_catch(I, node) ==
    Bind(exec_statements(I, node.try_block, 1), LAMBDA I1 :
      IF I1.exc # "TinyException"                \* except TinyException as ex
      THEN Note(I1, [ev |-> "try", entry |-> I.current_env, raised |-> I1.exc,
                     msg |-> I1.msg, caught |-> FALSE, bound |-> NoneV,
                     carried |-> I1.val, leaves |-> I1.exc, result |-> I1.val,
                     before |-> Visible(I.envs, I.current_env),
                     after |-> Visible(I1.envs, I.current_env)])
      ELSE
      LET prev_env == I1.current_env
          catch_env == Len(I1.envs) + 1
          I2 == [I1 EXCEPT
                   !.exc = "none", !.msg = "",
                   !.envs = define(Append(@, Environment(prev_env)), catch_env,
                                   node.catch_var, StrV(I1.msg)),
                   !.current_env = catch_env]
      IN  Bind(exec_statements(I2, node.catch_block, 1), LAMBDA I3 :
          Bind(IF Raised(I3) THEN I3
               ELSE [I3 EXCEPT !.current_env = prev_env], LAMBDA I4 :
          Note(Note(I4, [ev |-> "frame", c |-> "catch", entry |-> prev_env,
                         exit |-> I4.current_env, how |-> I3.exc,
                         before |-> Visible(I1.envs, prev_env),
                         after |-> Visible(I4.envs, prev_env)]),
               [ev |-> "try", entry |-> I.current_env, raised |-> I1.exc,
                msg |-> I1.msg, caught |-> TRUE,
                bound |-> get(I2.envs, I2.current_env, node.catch_var).val,
                carried |-> I1.val, leaves |-> I4.exc, result |-> I4.val,
                before |-> Visible(I.envs, I.current_env),
                after |-> Visible(I1.envs, I.current_env)]))))

\* `loc = f"{node.file}:{node.line}"; raise TinyException(f"{loc}: {msg}")`
raise_tiny(I, node, msg) ==
    Throw(I, "TinyException",
          node.file \o ":" \o ToString(node.line) \o ": " \o msg)

\* `obj[index] = value` of the Assignment branch, operands evaluated
assign_item(I, obj, index, value) ==
    IF obj.t = "list"
    THEN LET n == Len(I.heap[obj.n].items)
         IN  IF ~IsNumber(index)
             THEN Throw(I, "Exception", "Array index must be an integer")
             ELSE IF index.n >= n \/ index.n < -n     \* the host's IndexError
             THEN Throw(I, "Exception", "list assignment index out of range")
             ELSE [I EXCEPT !.heap[obj.n].items[
                      IF index.n >= 0 THEN index.n + 1 ELSE n + index.n + 1]
                          = value]
    ELSE IF obj.t = "dict"
    THEN IF index.t # "str"
         THEN Throw(I, "Exception", "Dictionary key must be a string")
         ELSE LET d == I.heap[obj.n]
                  at == {i \in 1..Len(d.keys) : d.keys[i] = index.s}
              IN  IF at = {}
                  THEN [I EXCEPT !.heap[obj.n].keys = Append(@, index.s),
                                 !.heap[obj.n].items = Append(@, value)]
                  ELSE [I EXCEPT !.heap[obj.n].items[CHOOSE i \in at : TRUE]
                                     = value]
    ELSE IF obj.t = "str"
    THEN Throw(I, "Exception", "Strings are immutable")
    ELSE Throw(I, "Exception", "Cannot index type " \o type_name(obj))

\* The Assignment branch of eval_statement, target an IndexAccess
assign_index(I, node, value) ==
    Bind(eval_expression(I, node.target.object), LAMBDA I1 :
      IF Raised(I1) THEN I1
      ELSE Bind(eval_expression(I1, node.target.index), LAMBDA I2 :
             IF Raised(I2) THEN I2
             ELSE Bind(assign_item(I2, I1.val, I2.val, value), LAMBDA I3 :
                    IF I1.val.t \notin {"list", "dict"} THEN I3
                    ELSE Note(I3, [ev |-> "item", of |-> I1.val.t,
                                   target |-> I1.val.n, index |-> I2.val,
                                   value |-> value, ok |-> ~Raised(I3),
                                   before |-> I2.heap[I1.val.n].items,
                                   after |-> I3.heap[I1.val.n].items]))))

\* The event of a call of a user function.
CallEvent(I, func, I1, I2, I4) ==
    [ev |-> "frame", c |-> "call", entry |-> I.current_env,
     exit |-> I4.current_env, how |-> I2.exc,
     returned |-> I2.val, result |-> I4.val, leaves |-> I4.exc,
     fn |-> func.n, frame |-> I1.current_env,
     parent |-> I1.envs[I1.current_env].parent,
     inside |-> I1.this_stack, stack_in |-> I.this_stack,
     stack_out |-> I4.this_stack]

\* A mutant of the FunctionCall branch: the new frame chains from the
\* caller's environment (dynamic scoping).
function_call_dynamic(I, func, args) ==
    LET F == I.heap[func.n]
        func_env == Len(I.envs) + 1
        prev_env == I.current_env
    IN  Bind([I EXCEPT
                !.envs = define_all(Append(@, Environment(prev_env)), func_env,
                                    F.params, args),
                !.current_env = func_env], LAMBDA I1 :
        Bind(exec_statements(I1, F.body, 1), LAMBDA I2 :
        Bind(IF I2.exc = "none" THEN Result(I2, NoneV)
             ELSE IF I2.exc = "Return" THEN [I2 EXCEPT !.exc = "none"]
             ELSE I2, LAMBDA I3 :
        Bind([I3 EXCEPT !.current_env = prev_env], LAMBDA I4 :
        Note(I4, CallEvent(I, func, I1, I2, I4))))))

\* A mutant of the FunctionCall branch: the ReturnException is not caught
\* by the call.
function_call_no_catch(I, func, args) ==
    LET F == I.heap[func.n]
        func_env == Len(I.envs) + 1
        prev_env == I.current_env
    IN  Bind([I EXCEPT
                !.envs = define_all(Append(@, Environment(F.env)), func_env,
                                    F.params, args),
                !.current_env = func_env], LAMBDA I1 :
        Bind(exec_statements(I1, F.body, 1), LAMBDA I2 :
        Bind(IF I2.exc = "none" THEN Result(I2, NoneV) ELSE I2, LAMBDA I3 :
        Bind([I3 EXCEPT !.current_env = prev_env], LAMBDA I4 :
        Note(I4, CallEvent(I, func, I1, I2, I4))))))

\* A mutant of the FunctionCall branch: a break or continue that reaches
\* the call ends it like a return.
function_call_absorbs(I, func, args) ==
    LET F == I.heap[func.n]
        func_env == Len(I.envs) + 1
        prev_env == I.current_env
    IN  Bind([I EXCEPT
                !.envs = define_all(Append(@, Environment(F.env)), func_env,
                                    F.params, args),
                !.current_env = func_env], LAMBDA I1 :
        Bind(exec_statements(I1, F.body, 1), LAMBDA I2 :
        Bind(IF I2.exc \in {"none", "Break", "Continue"}
             THEN Result([I2 EXCEPT !.exc = "none"], NoneV)
             ELSE IF I2.exc = "Return"
             THEN [I2 EXCEPT !.exc = "none"]
             ELSE I2, LAMBDA I3 :
        Bind([I3 EXCEPT !.current_env = prev_env], LAMBDA I4 :
        Note(I4, CallEvent(I, func, I1, I2, I4))))))

\* A mutant of the FunctionCall branch: the body of a function runs with
\* an empty receiver stack, which the call restores.
function_call_hides_receiver(I, func, args) ==
    LET F == I.heap[func.n]
        func_env == Len(I.envs) + 1
        prev_env == I.current_env
    IN  Bind([I EXCEPT
                !.envs = define_all(Append(@, Environment(F.env)), func_env,
                                    F.params, args),
                !.current_env = func_env, !.this_stack = <<>>], LAMBDA I1 :
        Bind(exec_statements(I1, F.body, 1), LAMBDA I2 :
        Bind(IF I2.exc = "none" THEN Result(I2, NoneV)
             ELSE IF I2.exc = "Return"
             THEN [I2 EXCEPT !.exc = "none"]
             ELSE I2, LAMBDA I3 :
        Bind([I3 EXCEPT !.current_env = prev_env,
                        !.this_stack = I.this_stack], LAMBDA I4 :
        Note(I4, CallEvent(I, func, I1, I2, I4))))))

\* The FunctionCall branch of eval_expression for a user-defined Function,
\* its arity checked: new environment, body, return value.
function_call(I, func, args) ==
    LET F == I.heap[func.n]
        func_env == Len(I.envs) + 1
        prev_env == I.current_env
    IN  Bind([I EXCEPT
                !.envs = define_all(Append(@, Environment(F.env)), func_env,
                                    F.params, args),
                !.current_env = func_env], LAMBDA I1 :
        Bind(exec_statements(I1, F.body, 1), LAMBDA I2 :
        Bind(IF I2.exc = "none" THEN Result(I2, NoneV)          \* return None
             ELSE IF I2.exc = "Return"                  \* except ReturnException
             THEN [I2 EXCEPT !.exc = "none"]                    \* return e.value
             ELSE I2, LAMBDA I3 :
        Bind([I3 EXCEPT !.current_env = prev_env], LAMBDA I4 :     \* finally
        Note(I4, CallEvent(I, func, I1, I2, I4))))))

\* The Assignment branch of eval_statement, target an Identifier
assign_name(I, name, value) ==
    LET r == set(I.envs, I.current_env, name, value)
    IN  Note(IF r.ok THEN [I EXCEPT !.envs = r.envs]
             ELSE Throw(I, "Exception", "Undefined variable: " \o name),
             [ev |-> "set", name |-> name, value |-> value,
              env |-> I.current_env, ok |-> r.ok, before |-> I.envs,
              after |-> r.envs])

\* Interpreter.eval_statement
eval_statement(I, node) ==
    CASE node.type = "VarDeclaration" ->
            Bind(eval_expression(I, node.value), LAMBDA I1 :
              IF Raised(I1) THEN I1
              ELSE [I1 EXCEPT !.envs = define(@, I1.current_env, node.name,
                                              I1.val)])
      [] node.type = "Assignment" ->
            Bind(eval_expression(I, node.value), LAMBDA I1 :
              IF Raised(I1) THEN I1
              ELSE IF node.target.type = "Identifier"
              THEN assign_name(I1, node.target.name, I1.val)
              ELSE IF node.target.type = "IndexAccess"
              THEN assign_index(I1, node, I1.val)
              ELSE IF node.target.type = "MemberAccess"
              THEN Bind(eval_expression(I1, node.target.object), LAMBDA I2 :
                     IF Raised(I2) THEN I2
                     ELSE set_member(I2, I2.val, node.target.member, I1.val))
              ELSE I1)
      [] node.type = "FunctionDef" ->
            LET func == Len(I.heap) + 1
            IN  Note([I EXCEPT
                        !.heap = Append(@, [kind |-> "Function",
                                            name |-> node.name,
                                            params |-> node.params,
                                            body |-> node.body,
                                            env |-> I.current_env]),
                        !.envs = define(@, I.current_env, node.name,
                                        RefV("Function", func))],
                     [ev |-> "def", fn |-> func, env |-> I.current_env])
      [] node.type = "ClassDef" ->
            LET class_value == Len(I.heap) + 1
            IN  [I EXCEPT
                   !.heap = Append(@, [kind |-> "ClassValue",
                                       name |-> node.name,
                                       members |-> node.members,
                                       methods |-> node.methods,
                                       env |-> I.current_env]),
                   !.envs = define(@, I.current_env, node.name,
                                   RefV("ClassValue", class_value))]
      [] node.type = "Return" ->
            IF node.value.type = "NoNode"
            THEN [I EXCEPT !.exc = "Return", !.val = NoneV]
            ELSE Bind(eval_expression(I, node.value), LAMBDA I1 :
                   IF Raised(I1) THEN I1 ELSE [I1 EXCEPT !.exc = "Return"])
      [] node.type = "IfStatement" ->
            Bind(eval_expression(I, node.condition), LAMBDA I1 :
              IF Raised(I1) THEN I1
              ELSE IF is_truthy(I1.heap, I1.val)
              THEN execute_block(I1, node.then_block)
              ELSE IF Len(node.else_block) > 0
              THEN execute_block(I1, node.else_block)
              ELSE I1)
      [] node.type = "WhileStatement" -> while_loop(I, node)
      [] node.type = "ForeachStatement" ->
            Bind(eval_expression(I, node.collection), LAMBDA I1 :
              IF Raised(I1) THEN I1
              ELSE IF I1.val.t = "list"
              THEN foreach_list(I1, node, I1.val.n, 0)
              ELSE IF I1.val.t = "dict"
              THEN foreach_dict(I1, node, I1.val.n, 0,
                                Len(I1.heap[I1.val.n].items))
              ELSE Throw(I1, "Exception",
                         "Cannot iterate over " \o type_name(I1.val)))
      [] node.type = "ForStatement" -> for_statement(I, node)
      [] node.type = "TryCatch" -> try_catch(I, node)
      [] node.type = "Raise" ->
            Bind(eval_expression(I, node.expr), LAMBDA I1 :
              IF Raised(I1) THEN I1
              ELSE raise_tiny(I1, node, to_string(I1.val)))
      [] node.type = "Assert" ->
            Bind(eval_expression(I, node.expr), LAMBDA I1 :
              IF Raised(I1) THEN I1
              ELSE IF is_truthy(I1.heap, I1.val) THEN I1
              ELSE IF node.msg.type = "NoNode"
              THEN raise_tiny(I1, node, "Assertion failed")
              ELSE Bind(eval_expression(I1, node.msg), LAMBDA I2 :
                     IF Raised(I2) THEN I2
                     ELSE raise_tiny(I2, node, to_string(I2.val))))
      [] node.type = "Break" -> Throw(I, "Break", "")
      [] node.type = "Continue" -> Throw(I, "Continue", "")
      [] node.type \in {"FunctionCall", "MethodCall"} -> eval_expression(I, node)
      [] OTHER -> Throw(I, "Exception", "Unknown statement type")

\* The DictLiteral branch of eval_expression: the pairs from pair i on,
\* inserted into keys / items
eval_pairs(I, pairs, keys, items) ==
    IF Len(items) = Len(pairs)
    THEN Result([I EXCEPT !.heap = Append(@, [kind |-> "dict", keys |-> keys,
                                              items |-> items])],
                RefV("dict", Len(I.heap) + 1))
    ELSE
    Bind(eval_expression(I, pairs[Len(items) + 1][1]), LAMBDA I1 :
      IF Raised(I1) THEN I1
      ELSE IF I1.val.t # "str"
      THEN Throw(I1, "Exception", "Dictionary keys must be strings")
      ELSE Bind(eval_expression(I1, pairs[Len(items) + 1][2]), LAMBDA I2 :
             LET at == {i \in 1..Len(keys) : keys[i] = I1.val.s}
             IN  IF Raised(I2) THEN I2
                 ELSE IF at = {}
                 THEN eval_pairs(I2, pairs, Append(keys, I1.val.s),
                                 Append(items, I2.val))
                 ELSE eval_pairs(I2, pairs, keys,
                                 [items EXCEPT ![CHOOSE i \in at : TRUE]
                                                   = I2.val])))

\* The IndexAccess branch of eval_expression, operands evaluated
index_access(I, obj, index) ==
    IF obj.t = "list"
    THEN IF ~IsNumber(index)
         THEN Throw(I, "Exception", "Array index must be an integer")
         ELSE IF index.n < 0 \/ index.n >= Len(I.heap[obj.n].items)
         THEN Throw(I, "Exception", "Array index out of bounds: "
                      \o ToString(index.n))
         ELSE Result(I, I.heap[obj.n].items[index.n + 1])
    ELSE IF obj.t = "dict"
    THEN LET d == I.heap[obj.n]
             at == {i \in 1..Len(d.keys) : d.keys[i] = index.s}
         IN  IF index.t # "str"
             THEN Throw(I, "Exception", "Dictionary key must be a string")
             ELSE IF at = {}
             THEN Throw(I, "Exception", "Dictionary key not found: " \o index.s)
             ELSE Result(I, d.items[CHOOSE i \in at : TRUE])
    ELSE IF obj.t = "str"
    THEN CASE ~IsNumber(index) ->
                Throw(I, "Exception", "String index must be an integer")
           [] IsNumber(index) /\ (index.n < 0 \/ index.n >= Len(obj.s)) ->
                Throw(I, "Exception", "String index out of bounds: "
                        \o ToString(index.n))    \* a character: not modelled
    ELSE Throw(I, "Exception", "Cannot index type " \o type_name(obj))

\* The host's seq[start:end]: an index below zero counts from the end, and
\* both indices are clamped to 0 .. len(seq)
slice_index(i, n) ==
    IF i < 0 THEN (IF i + n < 0 THEN 0 ELSE i + n) ELSE (IF i > n THEN n ELSE i)

host_slice(seq, start, end) ==
    SubSeq(seq, slice_index(start, Len(seq)) + 1, slice_index(end, Len(seq)))

\* The SliceAccess branch of eval_expression, operands evaluated
slice_access(I, obj, start, end) ==
    IF ~IsNumber(start) \/ ~IsNumber(end)
    THEN Throw(I, "Exception", "Slice indices must be integers")
    ELSE IF obj.t = "list"
    THEN LET items == host_slice(I.heap[obj.n].items, start.n, end.n)
         IN  Note(Result([I EXCEPT !.heap = Append(@, [kind |-> "list",
                                                       items |-> items])],
                         RefV("list", Len(I.heap) + 1)),
                  [ev |-> "slice", of |-> "list", start |-> start, end |-> end,
                   source |-> I.heap[obj.n].items, result |-> items])
    ELSE IF obj.t = "str"
    THEN LET chars == host_slice(Spelling[obj.s], start.n, end.n)
         IN  Note(Result(I, StrV(Text(chars))),
                  [ev |-> "slice", of |-> "str", start |-> start, end |-> end,
                   source |-> Spelling[obj.s], result |-> chars])
    ELSE Throw(I, "Exception", "Cannot slice type " \o type_name(obj))

\* The BinaryOp branch of eval_expression
binary_op(I, node) ==
    Bind(eval_expression(I, node.left), LAMBDA I1 :
      IF Raised(I1) THEN I1
      ELSE Bind(eval_expression(I1, node.right), LAMBDA I2 :
             IF Raised(I2) THEN I2
             ELSE IF node.operator = "+" /\ I1.val.t = "list"
                     /\ I2.val.t = "list"
             THEN Result([I2 EXCEPT !.heap = Append(@,
                             [kind |-> "list",
                              items |-> I2.heap[I1.val.n].items
                                        \o I2.heap[I2.val.n].items])],
                         RefV("list", Len(I2.heap) + 1))
             ELSE Bind(Lift(I2, eval_binary_op(I2.heap, I1.val, node.operator,
                                               I2.val)), LAMBDA I3 :
                    Note(I3, [ev |-> "binop", op |-> node.operator,
                              left |-> I1.val, right |-> I2.val,
                              ok |-> ~Raised(I3), val |-> I3.val]))))

\* Interpreter.eval_expression
eval_expression(I, node) ==
    CASE node.type = "IntLiteral" -> Result(I, IntV(node.value))
      [] node.type = "StringLiteral" -> Result(I, StrV(node.value))
      [] node.type = "BoolLiteral" -> Result(I, BoolV(node.value))
      [] node.type = "NullLiteral" -> Result(I, NoneV)
      [] node.type = "ArrayLiteral" ->
            Bind(eval_arguments(I, node.elements, <<>>), LAMBDA I1 :
              IF Raised(I1) THEN I1
              ELSE Result([I1 EXCEPT !.heap = Append(@, [kind |-> "list",
                                                         items |-> I1.vals])],
                          RefV("list", Len(I1.heap) + 1)))
      [] node.type = "DictLiteral" -> eval_pairs(I, node.pairs, <<>>, <<>>)
      [] node.type = "Identifier" ->
            LET r == get(I.envs, I.current_env, node.name)
            IN  IF r.ok THEN Result(I, r.val)
                ELSE Throw(I, "Exception", "Undefined variable: " \o node.name)
      [] node.type = "MemberAccess" ->
            Bind(eval_expression(I, node.object), LAMBDA I1 :
              IF Raised(I1) THEN I1 ELSE get_member(I1, I1.val, node.member))
      [] node.type = "BinaryOp" -> binary_op(I, node)
      [] node.type = "UnaryOp" ->
            Bind(eval_expression(I, node.operand), LAMBDA I1 :
              IF Raised(I1) THEN I1
              ELSE Lift(I1, eval_unary_op(I1.heap, node.operator, I1.val)))
      [] node.type = "IndexAccess" ->
            Bind(eval_expression(I, node.object), LAMBDA I1 :
              IF Raised(I1) THEN I1
              ELSE Bind(eval_expression(I1, node.index), LAMBDA I2 :
                     IF Raised(I2) THEN I2
                     ELSE index_access(I2, I1.val, I2.val)))
      [] node.type = "SliceAccess" ->
            Bind(eval_expression(I, node.object), LAMBDA I1 :
              IF Raised(I1) THEN I1
              ELSE Bind(eval_expression(I1, node.start), LAMBDA I2 :
                     IF Raised(I2) THEN I2
                     ELSE Bind(eval_expression(I2, node.end), LAMBDA I3 :
                            IF Raised(I3) THEN I3
                            ELSE slice_access(I3, I1.val, I2.val, I3.val))))
      [] node.type = "FunctionCall" ->
            LET r == get(I.envs, I.current_env, node.name)
                func == r.val
            IN  IF ~r.ok
                THEN Throw(I, "Exception", "Undefined variable: " \o node.name)
                ELSE
                Bind(eval_arguments(I, node.arguments, <<>>), LAMBDA I1 :
                  IF Raised(I1) THEN I1
                  ELSE IF func.t \in {"builtin", "bound_method"}
                  THEN call_builtin(I1, func, I1.vals)
                  ELSE IF func.t = "Function"
                  THEN IF Len(I1.vals) # Len(I1.heap[func.n].params)
                       THEN Throw(I1, "Exception", "Function "
                                    \o I1.heap[func.n].name \o " expects "
                                    \o ToString(Len(I1.heap[func.n].params))
                                    \o " arguments, got "
                                    \o ToString(Len(I1.vals)))
                       ELSE function_call(I1, func, I1.vals)
                  ELSE Throw(I1, "Exception", node.name \o " is not a function"))
      [] node.type = "MethodCall" ->
            Bind(eval_expression(I, node.object), LAMBDA I1 :
              IF Raised(I1) THEN I1
              ELSE Bind(eval_arguments(I1, node.arguments, <<>>), LAMBDA I2 :
                     IF Raised(I2) THEN I2
                     ELSE call_method(I2, I1.val, node.method, I2.vals)))
      [] node.type = "NewExpression" ->
            LET r == get(I.envs, I.current_env, node.class_name)
            IN  IF ~r.ok
                THEN Throw(I, "Exception", "Undefined variable: "
                             \o node.class_name)
                ELSE IF r.val.t # "ClassValue"
                THEN Throw(I, "Exception", node.class_name \o " is not a class")
                ELSE Bind(eval_arguments(I, node.arguments, <<>>), LAMBDA I1 :
                       IF Raised(I1) THEN I1
                       ELSE instantiate_class(I1, r.val.n, I1.vals))
      [] OTHER -> Throw(I, "Exception", "Unknown expression type")

\* Interpreter.interpret
interpret(I, program) == exec_statements(I, program.statements, 1)

(***************************************************************************)
(* The programs of the model.  A line of the session is named by a record  *)
(* [s, c, w, x]; Source(line) is its statement list, written here as the   *)
(* parser builds it.  A session draws its lines from one family [s, c, w]. *)
(***************************************************************************)
Num(i) == IntLiteral(i)

Str(str) == StringLiteral(str)

Id(name) == Identifier(name)

println(expr) == FunctionCall("println", <<expr>>)

\* How a block ends: the last statements of its body.
Exits == {"normal", "return", "break", "continue", "error", "raise"}

Ending(x) ==
    CASE x = "normal" -> <<VarDeclaration("t", Num(1))>>
      [] x = "return" -> <<Return(Num(7))>>
      [] x = "break" -> <<Break>>
      [] x = "continue" -> <<Continue>>
      [] x = "error" -> <<VarDeclaration("t", Id("undefined"))>>
      [] x = "raise" -> <<Raise(Str("boom"), "<input>", 1)>>

\* The constructs that run a body: each is given the body and yields the
\* statements that define and run it.
Constructs ==
    {"if", "else", "while", "foreach", "foreach_dict", "try", "catch", "call",
     "method", "new"}

Construct(c, body) ==
    CASE c = "if" -> <<IfStatement(BoolLiteral(TRUE), body, <<>>)>>
      [] c = "else" ->
            <<IfStatement(BoolLiteral(FALSE), <<println(Str("then"))>>, body)>>
      [] c = "while" ->
            <<VarDeclaration("i", Num(0)),
              WhileStatement(BinaryOp(Id("i"), "<", Num(2)),
                  <<Assignment(Id("i"), BinaryOp(Id("i"), "+", Num(1)))>>
                  \o body)>>
      [] c = "foreach" ->
            <<ForeachStatement("k", "v", ArrayLiteral(<<Num(5), Num(6)>>), body)>>
      [] c = "foreach_dict" ->
            <<ForeachStatement("k", "v",
                  DictLiteral(<< <<Str("a"), Num(5)>>, <<Str("b"), Num(6)>> >>),
                  body)>>
      [] c = "try" -> <<TryCatch(body, "e", <<println(Id("e"))>>)>>
      [] c = "catch" ->
            <<TryCatch(<<Raise(Str("first"), "<input>", 1)>>, "e", body)>>
      [] c = "call" ->
            <<FunctionDef("f", <<>>, body), FunctionCall("f", <<>>)>>
      [] c = "method" ->
            <<ClassDef("C", <<>>, <<FunctionDef("m", <<>>, body)>>),
              VarDeclaration("o", NewExpression("C", <<>>)),
              MethodCall(Id("o"), "m", <<>>)>>
      [] c = "new" ->
            <<ClassDef("K", <<VarDeclaration("v", Num(0))>>,
                       <<FunctionDef("init", <<>>, body)>>),
              VarDeclaration("o", NewExpression("K", <<>>))>>

\* Where the construct stands: at top level, in a function body, in a
\* method body, in a loop body, or in the try-block of a try/catch.
Wrappers == {"top", "func", "method", "loop", "try"}

Wrapper(w, stmts) ==
    CASE w = "top" -> stmts \o <<println(Str("end"))>>
      [] w = "func" ->
            <<FunctionDef("wf", <<>>,
                  stmts \o <<println(Str("end")), Return(Num(0))>>),
              println(FunctionCall("wf", <<>>)),
              println(Str("after"))>>
      [] w = "method" ->
            <<ClassDef("W", <<>>,
                  <<FunctionDef("m", <<>>,
                        stmts \o <<println(Str("end")), Return(Num(0))>>)>>),
              VarDeclaration("wo", NewExpression("W", <<>>)),
              println(MethodCall(Id("wo"), "m", <<>>)),
              println(Str("after"))>>
      [] w = "loop" ->
            <<ForeachStatement("a", "b", ArrayLiteral(<<Num(1), Num(2)>>),
                  <<println(Id("a"))>> \o stmts \o <<println(Str("end"))>>),
              println(Str("after"))>>
      [] w = "try" ->
            <<TryCatch(stmts \o <<println(Str("end"))>>, "x",
                       <<println(Id("x"))>>),
              println(Str("after"))>>

FrameLines ==
    {[s |-> "frame", c |-> c, w |-> w, x |-> x] :
        c \in Constructs, w \in Wrappers, x \in Exits}

\* Scoping: a block declares t, which the enclosing frame does not bind
\* ("fresh") or binds already ("shadow"); t is read after the block.
Blocks == {"if", "else", "while", "foreach", "foreach_dict", "try", "catch"}

ScopeLines ==
    {[s |-> "scope", c |-> c, w |-> w, x |-> x] :
        c \in Blocks, w \in {"top", "func"}, x \in {"fresh", "shadow"}}

Scope(c, x) ==
    (IF x = "shadow" THEN <<VarDeclaration("t", Num(0))>> ELSE <<>>)
    \o Construct(c, <<VarDeclaration("t", Num(1)), println(Id("t"))>>)
    \o <<println(Id("t"))>>

\* Errors raised in a try-block: try { ... } catch e { println(e); }
Errors ==
    {"undefined", "undefined_set", "div", "mod", "index", "key", "arity",
     "arity_method", "arity_new", "private", "raise", "assert", "assert_msg",
     "none"}

ErrorLines ==
    {[s |-> "errors", c |-> "", w |-> w, x |-> x] :
        w \in {"top", "call"}, x \in Errors}

Failing(x) ==
    CASE x = "undefined" -> <<println(Id("undefined"))>>
      [] x = "undefined_set" -> <<Assignment(Id("undefined"), Num(1))>>
      [] x = "div" -> <<println(BinaryOp(Num(1), "/", Num(0)))>>
      [] x = "mod" -> <<println(BinaryOp(Num(1), "%", Num(0)))>>
      [] x = "index" ->
            <<println(IndexAccess(ArrayLiteral(<<Num(1), Num(2)>>), Num(2)))>>
      [] x = "key" ->
            <<println(IndexAccess(DictLiteral(<< <<Str("a"), Num(1)>> >>),
                                  Str("b")))>>
      [] x = "arity" ->
            <<FunctionDef("f", <<"p">>, <<Return(Id("p"))>>),
              println(FunctionCall("f", <<>>))>>
      [] x = "arity_method" ->
            <<ClassDef("C", <<>>, <<FunctionDef("m", <<"p">>, <<Return(Id("p"))>>)>>),
              VarDeclaration("o", NewExpression("C", <<>>)),
              println(MethodCall(Id("o"), "m", <<>>))>>
      [] x = "arity_new" ->
            <<ClassDef("K", <<>>, <<FunctionDef("init", <<"p">>, <<>>)>>),
              VarDeclaration("o", NewExpression("K", <<>>))>>
      [] x = "private" ->
            <<ClassDef("C", <<VarDeclaration("_v", Num(1))>>, <<>>),
              VarDeclaration("o", NewExpression("C", <<>>)),
              println(MemberAccess(Id("o"), "_v"))>>
      [] x = "raise" -> <<Raise(Str("boom"), "<input>", 1)>>
      [] x = "assert" ->
            <<AssertNode(BinaryOp(Num(1), "==", Num(2)), NoNode, "<input>", 1)>>
      [] x = "assert_msg" ->
            <<AssertNode(BoolLiteral(FALSE), Str("no"), "<input>", 1)>>
      [] x = "none" -> <<println(Str("fine"))>>

Guarded(w, stmts) ==
    <<TryCatch(IF w = "call"
               THEN <<FunctionDef("g", <<>>, stmts), FunctionCall("g", <<>>)>>
               ELSE stmts,
               "e", <<println(Str("caught")), println(Id("e"))>>),
      println(Str("after"))>>

\* return at some block nesting depth of a function or method body
Nestings ==
    {"none", "if", "else", "while", "foreach", "try", "catch", "if_while",
     "foreach_try", "catch_if"}

Nest(c, body) ==
    CASE c = "none" -> body
      [] c = "if_while" -> Construct("if", Construct("while", body))
      [] c = "foreach_try" -> Construct("foreach", Construct("try", body))
      [] c = "catch_if" -> Construct("catch", Construct("if", body))
      [] OTHER -> Construct(c, body)

ReturnLines ==
    {[s |-> "return", c |-> c, w |-> w, x |-> x] :
        c \in Nestings, w \in {"func", "method"}, x \in {"value", "bare", "fall"}}

Callee(c, x) ==
    CASE x = "value" ->
            Nest(c, <<Return(Num(7))>>) \o <<println(Str("dead")), Return(Num(9))>>
      [] x = "bare" ->
            Nest(c, <<Return(NoNode)>>) \o <<println(Str("dead")), Return(Num(9))>>
      [] x = "fall" -> Nest(c, <<println(Str("in"))>>)

Returning(c, w, x) ==
    IF w = "func"
    THEN <<FunctionDef("f", <<>>, Callee(c, x)),
           FunctionDef("g", <<>>,
               <<VarDeclaration("r", FunctionCall("f", <<>>)),
                 println(Id("r")), println(Str("live")), Return(Num(8))>>),
           println(FunctionCall("g", <<>>)),
           println(Str("top"))>>
    ELSE <<ClassDef("C", <<>>,
               <<FunctionDef("m", <<>>, Callee(c, x)),
                 FunctionDef("call", <<>>,
                     <<VarDeclaration("r", MethodCall(Id("this"), "m", <<>>)),
                       println(Id("r")), println(Str("live")),
                       Return(Num(8))>>)>>),
           VarDeclaration("o", NewExpression("C", <<>>)),
           println(MethodCall(Id("o"), "call", <<>>)),
           println(Str("top"))>>

\* Nested loops: the outer loop runs a over 1, 2, the inner loop b over
\* 1, 2, 3; at b = 2 the inner body executes break, continue, or nothing.
LoopLines ==
    {[s |-> "loops", c |-> c, w |-> w, x |-> x] :
        c \in {"while", "foreach"}, w \in {"while", "foreach"},
        x \in {"break", "continue", "none"}}

Loop(kind, var, n, body) ==
    IF kind = "while"
    THEN <<VarDeclaration(var, Num(0)),
           WhileStatement(BinaryOp(Id(var), "<", Num(n)),
               <<Assignment(Id(var), BinaryOp(Id(var), "+", Num(1)))>> \o body)>>
    ELSE <<ForeachStatement("k", var,
               ArrayLiteral([i \in 1..n |-> Num(i)]), body)>>

NestedLoops(outer, inner, x) ==
    Loop(outer, "a", 2,
         Loop(inner, "b", 3,
              <<IfStatement(BinaryOp(Id("b"), "==", Num(2)),
                    CASE x = "break" -> <<Break>>
                      [] x = "continue" -> <<Continue>>
                      [] x = "none" -> <<println(Str("two"))>>,
                    <<>>),
                println(BinaryOp(BinaryOp(Id("a"), "*", Num(10)), "+", Id("b")))>>)
         \o <<println(Id("a"))>>)
    \o <<println(Str("done"))>>

\* Closures
Closures ==
    {"rebind", "caller_local", "caller_shadow", "counter", "block_def", "param"}

ClosureLines == {[s |-> "closure", c |-> "", w |-> "", x |-> x] : x \in Closures}

Closure(x) ==
    CASE x = "rebind" ->            \* var x = 1; func f() { return x; } x = 2; f()
            <<VarDeclaration("x", Num(1)),
              FunctionDef("f", <<>>, <<Return(Id("x"))>>),
              Assignment(Id("x"), Num(2)),
              println(FunctionCall("f", <<>>))>>
      [] x = "caller_local" ->
            <<FunctionDef("h", <<>>, <<Return(Id("y"))>>),
              FunctionDef("g", <<>>,
                  <<VarDeclaration("y", Num(5)), Return(FunctionCall("h", <<>>))>>),
              println(FunctionCall("g", <<>>))>>
      [] x = "caller_shadow" ->
            <<VarDeclaration("z", Num(1)),
              FunctionDef("h", <<>>, <<Return(Id("z"))>>),
              FunctionDef("g", <<>>,
                  <<VarDeclaration("z", Num(5)), Return(FunctionCall("h", <<>>))>>),
              println(FunctionCall("g", <<>>))>>
      [] x = "counter" ->
            <<FunctionDef("mk", <<>>,
                  <<VarDeclaration("n", Num(10)),
                    FunctionDef("inc", <<>>,
                        <<Assignment(Id("n"), BinaryOp(Id("n"), "+", Num(1))),
                          Return(Id("n"))>>),
                    Return(Id("inc"))>>),
              VarDeclaration("k", FunctionCall("mk", <<>>)),
              println(FunctionCall("k", <<>>)),
              println(FunctionCall("k", <<>>))>>
      [] x = "block_def" ->
            <<VarDeclaration("u", Num(1)),
              IfStatement(BoolLiteral(TRUE),
                  <<VarDeclaration("u", Num(2)),
                    FunctionDef("f", <<>>, <<Return(Id("u"))>>),
                    println(FunctionCall("f", <<>>))>>,
                  <<>>),
              println(Id("u"))>>
      [] x = "param" ->
            <<FunctionDef("h", <<>>, <<Return(Id("p"))>>),
              FunctionDef("g", <<"p">>, <<Return(FunctionCall("h", <<>>))>>),
              println(FunctionCall("g", <<Num(5)>>))>>

\* Private members
Accesses ==
    {"read_top", "write_top", "call_top", "read_self", "read_same",
     "write_same", "call_same", "read_diff", "write_diff", "call_diff", "via",
     "public", "bound", "free_top", "free_in_method", "redefine"}

PrivateLines == {[s |-> "private", c |-> "", w |-> "", x |-> x] : x \in Accesses}

ClassBody(v, m) ==
    [members |-> <<VarDeclaration("_v", Num(v)), VarDeclaration("v", Num(2))>>,
     methods |->
       <<FunctionDef("peek", <<"o">>, <<Return(MemberAccess(Id("o"), "_v"))>>),
         FunctionDef("poke", <<"o">>,
             <<Assignment(MemberAccess(Id("o"), "_v"), Num(9))>>),
         FunctionDef("_m", <<>>, <<Return(Num(m))>>),
         FunctionDef("call", <<"o">>,
             <<Return(MethodCall(Id("o"), "_m", <<>>))>>),
         FunctionDef("via", <<"d", "o">>,
             <<Return(MethodCall(Id("d"), "peek", <<Id("o")>>))>>),
         FunctionDef("free", <<"o">>,
             <<Return(FunctionCall("g", <<Id("o")>>))>>)>>]

Classes ==
    <<ClassDef("C", ClassBody(1, 3).members, ClassBody(1, 3).methods),
      ClassDef("D", ClassBody(5, 4).members, ClassBody(5, 4).methods),
      FunctionDef("g", <<"o">>, <<Return(MemberAccess(Id("o"), "_v"))>>),
      VarDeclaration("c", NewExpression("C", <<>>)),
      VarDeclaration("c2", NewExpression("C", <<>>)),
      VarDeclaration("d", NewExpression("D", <<>>))>>

Access(x) ==
    CASE x = "read_top" -> <<println(MemberAccess(Id("c"), "_v"))>>
      [] x = "write_top" -> <<Assignment(MemberAccess(Id("c"), "_v"), Num(9))>>
      [] x = "call_top" -> <<println(MethodCall(Id("c"), "_m", <<>>))>>
      [] x = "read_self" -> <<println(MethodCall(Id("c"), "peek", <<Id("c")>>))>>
      [] x = "read_same" -> <<println(MethodCall(Id("c"), "peek", <<Id("c2")>>))>>
      [] x = "write_same" ->
            <<MethodCall(Id("c"), "poke", <<Id("c2")>>),
              println(MethodCall(Id("c2"), "peek", <<Id("c2")>>))>>
      [] x = "call_same" -> <<println(MethodCall(Id("c"), "call", <<Id("c2")>>))>>
      [] x = "read_diff" -> <<println(MethodCall(Id("d"), "peek", <<Id("c")>>))>>
      [] x = "write_diff" -> <<MethodCall(Id("d"), "poke", <<Id("c")>>)>>
      [] x = "call_diff" -> <<println(MethodCall(Id("d"), "call", <<Id("c")>>))>>
      [] x = "via" ->
            <<println(MethodCall(Id("c"), "via", <<Id("d"), Id("c")>>))>>
      [] x = "public" ->
            <<Assignment(MemberAccess(Id("c"), "v"), Num(3)),
              println(MemberAccess(Id("c"), "v"))>>
      [] x = "bound" ->
            <<VarDeclaration("bm", MemberAccess(Id("c"), "peek")),
              println(FunctionCall("bm", <<Id("c")>>))>>
      [] x = "free_top" -> <<println(FunctionCall("g", <<Id("c")>>))>>
      [] x = "free_in_method" ->
            <<println(MethodCall(Id("c"), "free", <<Id("c")>>))>>
      [] x = "redefine" ->          \* a second class named C meets the first
            <<VarDeclaration("old", Id("c"))>> \o Classes
            \o <<println(MethodCall(Id("c"), "peek", <<Id("old")>>))>>

\* and / or
Logics ==
    {"and_false", "and_true", "or_true", "or_false", "and_error", "or_error",
     "and_values", "or_values"}

LogicLines == {[s |-> "logic", c |-> "", w |-> "", x |-> x] : x \in Logics}

Logic(x) ==
    <<FunctionDef("f", <<>>, <<println(Str("side")), Return(BoolLiteral(TRUE))>>)>>
    \o
    CASE x = "and_false" ->
            <<println(BinaryOp(BoolLiteral(FALSE), "and", FunctionCall("f", <<>>)))>>
      [] x = "and_true" ->
            <<println(BinaryOp(BoolLiteral(TRUE), "and", FunctionCall("f", <<>>)))>>
      [] x = "or_true" ->
            <<println(BinaryOp(BoolLiteral(TRUE), "or", FunctionCall("f", <<>>)))>>
      [] x = "or_false" ->
            <<println(BinaryOp(BoolLiteral(FALSE), "or", FunctionCall("f", <<>>)))>>
      [] x = "and_error" ->
            <<println(BinaryOp(Num(0), "and", BinaryOp(Num(1), "/", Num(0))))>>
      [] x = "or_error" ->
            <<println(BinaryOp(Num(1), "or", Id("undefined")))>>
      [] x = "and_values" ->
            <<println(BinaryOp(Num(3), "and", Str("a"))),
              println(BinaryOp(Num(3), "and", Str("")))>>
      [] x = "or_values" ->
            <<println(BinaryOp(Num(0), "or", NullLiteral)),
              println(BinaryOp(Str(""), "or", Num(4)))>>

\* Assignment to a name bound in the current frame, in an enclosing frame,
\* in several frames, or in none
Assignments ==
    {"current", "parent", "shadow", "global", "deep", "missing",
     "missing_in_func", "caller_local"}

AssignLines == {[s |-> "assign", c |-> "", w |-> "", x |-> x] : x \in Assignments}

Inc(name, i) == Assignment(Id(name), Num(i))

Assign(x) ==
    CASE x = "current" -> <<VarDeclaration("a", Num(1)), Inc("a", 2), println(Id("a"))>>
      [] x = "parent" ->
            <<VarDeclaration("a", Num(1)),
              IfStatement(BoolLiteral(TRUE), <<Inc("a", 2)>>, <<>>),
              println(Id("a"))>>
      [] x = "shadow" ->
            <<VarDeclaration("a", Num(1)),
              IfStatement(BoolLiteral(TRUE),
                  <<VarDeclaration("a", Num(5)), Inc("a", 6), println(Id("a"))>>,
                  <<>>),
              println(Id("a"))>>
      [] x = "global" ->
            <<VarDeclaration("a", Num(1)),
              FunctionDef("f", <<>>, <<Inc("a", 2)>>),
              FunctionCall("f", <<>>),
              println(Id("a"))>>
      [] x = "deep" ->
            <<VarDeclaration("a", Num(1)),
              IfStatement(BoolLiteral(TRUE),
                  <<VarDeclaration("b", Num(1)),
                    IfStatement(BoolLiteral(TRUE),
                        <<VarDeclaration("a", Num(7)),
                          Inc("a", 2), Inc("b", 3),
                          println(BinaryOp(Id("a"), "+", Id("b")))>>,
                        <<>>),
                    println(BinaryOp(Id("a"), "+", Id("b")))>>,
                  <<>>),
              println(Id("a"))>>
      [] x = "missing" -> <<Inc("zz", 1)>>
      [] x = "missing_in_func" ->
            <<FunctionDef("f", <<>>,
                  <<IfStatement(BoolLiteral(TRUE), <<Inc("zz", 1)>>, <<>>)>>),
              FunctionCall("f", <<>>)>>
      [] x = "caller_local" ->
            <<FunctionDef("h", <<>>, <<Inc("q", 9)>>),
              FunctionDef("g", <<>>,
                  <<VarDeclaration("q", Num(1)), FunctionCall("h", <<>>),
                    println(Id("q"))>>),
              FunctionCall("g", <<>>)>>

\* The numbers of the model's programs, written in a line's name as their
\* decimal text
Numbers == (-(MaxInt))..MaxInt

Number(str) == CHOOSE i \in Numbers : ToString(i) = str

\* The expression the parser builds for the text of a number: a literal,
\* under a unary minus when the text starts with `-`
Literal(i) == IF i < 0 THEN UnaryOp("-", Num(-i)) ELSE Num(i)

\* Values that are no integers
NonIntegers == {"true", "false", "null", "text"}

Other(x) ==
    CASE x = "true" -> BoolLiteral(TRUE)
      [] x = "false" -> BoolLiteral(FALSE)
      [] x = "null" -> NullLiteral
      [] x = "text" -> Str("ab")

\* [10, 20, ...], n elements
Elements(n) == [k \in 1..n |-> Num(10 * k)]

\* for (k => v in a) { println(v); }
Show(name) == ForeachStatement("k", "v", Id(name), <<println(Id("v"))>>)

\* a[i] = 99 on an array of n elements, for i a number from below -n to above
\* n or no integer; "show" prints the array the session holds
ItemIndices == {ToString(i) : i \in (-(MaxLen + 1))..(MaxLen + 1)}

ItemLines ==
    {[s |-> "item", c |-> ToString(n), w |-> "", x |-> x] :
        n \in 0..MaxLen, x \in ItemIndices \cup NonIntegers \cup {"show"}}

ItemAssign(n, x) ==
    IF x = "show" THEN <<Show("a")>>
    ELSE <<VarDeclaration("a", ArrayLiteral(Elements(n))),
           Assignment(IndexAccess(Id("a"),
                                  IF x \in NonIntegers THEN Other(x)
                                  ELSE Literal(Number(x))),
                      Num(99)),
           Show("a")>>

\* for (i = start .. end) { ... println(i); } for start and end from -MaxLen
\* to MaxLen + 1; the body prints i, or prints i only after a `continue`
\* that the even numbers take, or ends the loop with `break` at 1
RangeBodies == {"print", "continue", "break"}

RangeBounds == (-MaxLen)..(MaxLen + 1)

RangeLines ==
    {[s |-> "range", c |-> ToString(a), w |-> w, x |-> ToString(b)] :
        a \in RangeBounds, b \in RangeBounds, w \in RangeBodies}

RangeBody(w) ==
    CASE w = "print" -> <<println(Id("i"))>>
      [] w = "continue" ->
            <<IfStatement(BinaryOp(BinaryOp(Id("i"), "%", Num(2)), "==", Num(0)),
                          <<Continue>>, <<>>),
              println(Id("i"))>>
      [] w = "break" ->
            <<IfStatement(BinaryOp(Id("i"), "==", Num(1)), <<Break>>, <<>>),
              println(Id("i"))>>

RangeLoop(a, b, w) ==
    <<ForStatement("i", Literal(a), Literal(b), RangeBody(w)),
      println(Str("after"))>>

\* println(x in c) and println(x not_in c) for an array, a string, a dict
\* and a number c, and for numbers, strings and null x
Containers == {"array", "string", "dict", "number"}

Operands == {"1", "2", "a", "b", "ab", "ba", "", "null"}

MemberLines ==
    {[s |-> "member", c |-> c, w |-> w, x |-> x] :
        c \in Containers, w \in {"in", "not_in"}, x \in Operands}

Container(c) ==
    CASE c = "array" -> ArrayLiteral(<<Num(1), Str("a"), Str("ab")>>)
      [] c = "string" -> Str("abc")
      [] c = "dict" -> DictLiteral(<<<<Str("a"), Num(1)>>, <<Str("ab"), Num(2)>>>>)
      [] c = "number" -> Num(1)

Operand(x) ==
    CASE x \in {"1", "2"} -> Num(Number(x))
      [] x = "null" -> NullLiteral
      [] OTHER -> Str(x)

Membership(c, w, x) == <<println(BinaryOp(Operand(x), w, Container(c)))>>

\* c[a:b] for an array and a string c of MaxLen elements, and a and b
\* from below -MaxLen to above MaxLen; also a null index and a number c
Sliced == {"array", "string", "number"}

SliceIndices == {ToString(i) : i \in (-(MaxLen + 1))..(MaxLen + 1)} \cup {"null"}

SliceLines ==
    {[s |-> "slice" \o c, c |-> "", w |-> a, x |-> b] :
        c \in Sliced, a \in SliceIndices, b \in SliceIndices}

Letters == SubSeq(<<"a", "b", "c">>, 1, MaxLen)

SliceIndex(x) == IF x = "null" THEN NullLiteral ELSE Literal(Number(x))

Slice(c, a, b) ==
    CASE c = "array" ->
            <<ForeachStatement("k", "v",
                  SliceAccess(ArrayLiteral(Elements(MaxLen)), SliceIndex(a),
                              SliceIndex(b)),
                  <<println(Id("v"))>>),
              println(Str("end"))>>
      [] c = "string" ->
            <<println(SliceAccess(Str(Text(Letters)), SliceIndex(a),
                                  SliceIndex(b)))>>
      [] c = "number" ->
            <<println(SliceAccess(Num(1), SliceIndex(a), SliceIndex(b)))>>

\* println(x == y) and println(x != y) for booleans, numbers, null and a
\* string
Comparands == {"true", "false", "0", "1", "2", "null", "text"}

EqualLines ==
    {[s |-> "equal", c |-> a, w |-> w, x |-> b] :
        a \in Comparands, w \in {"==", "!="}, b \in Comparands}

Comparand(x) == IF x \in NonIntegers THEN Other(x) ELSE Literal(Number(x))

Equal(a, w, b) == <<println(BinaryOp(Comparand(a), w, Comparand(b)))>>

\* println(a / b) and println(a % b) for the numbers a and b
DivideLines ==
    {[s |-> "divide", c |-> ToString(a), w |-> w, x |-> ToString(b)] :
        a \in Numbers, w \in {"/", "%"}, b \in Numbers}

Divide(a, w, b) == <<println(BinaryOp(Literal(a), w, Literal(b)))>>

\* for (k => v in collection) { println(k); ... println(v); } over an array
\* or a dict of 0 .. MaxLen entries, and over a number, a string, null and a
\* boolean; the body prints the key and the value, or takes `continue`
\* after the key
Iterated == {"array", "dict"}

NotIterated == {"number", "string", "null", "bool"}

EachBodies == {"print", "continue"}

EachLines ==
    {[s |-> "each", c |-> c, w |-> w, x |-> ToString(n)] :
        c \in Iterated, w \in EachBodies, n \in 0..MaxLen}
    \cup {[s |-> "each", c |-> c, w |-> w, x |-> "0"] :
        c \in NotIterated, w \in EachBodies}

\* The keys of the dict literal, in the order they are written
EachKeys == <<"b", "a", "c", "ab">>

EachCollection(c, n) ==
    CASE c = "array" -> ArrayLiteral([k \in 1..n |-> Num(10 * k)])
      [] c = "dict" ->
            DictLiteral([k \in 1..n |-> <<Str(EachKeys[k]), Num(10 * k)>>])
      [] c = "number" -> Num(3)
      [] c = "string" -> Str("ab")
      [] c = "null" -> NullLiteral
      [] c = "bool" -> BoolLiteral(TRUE)

EachBody(w) ==
    <<println(Id("k"))>>
    \o (IF w = "continue" THEN <<Continue>> ELSE <<>>)
    \o <<println(Id("v"))>>

Each(c, w, n) ==
    <<ForeachStatement("k", "v", EachCollection(c, n), EachBody(w)),
      println(Str("after"))>>

\* class F { var a = 1; var b = 2; var _v = 3; func poke(x) { this.f = x; }
\* func peek() { println(this.a); println(this.b); println(this._v); } }
\* var o = new F(); then o.f = x from the top level or o.poke(x), then
\* o.peek(); f is a declared field, an undeclared name or a method's name
FieldNames == {"a", "b", "c", "_v", "_m", "poke"}

FieldPlaces == {"top", "method"}

FieldValues == {"6", "7"}

FieldLines ==
    {[s |-> "field", c |-> c, w |-> w, x |-> x] :
        c \in FieldPlaces, w \in FieldNames, x \in FieldValues}

FieldClass(f) ==
    ClassDef("F",
        <<VarDeclaration("a", Num(1)), VarDeclaration("b", Num(2)),
          VarDeclaration("_v", Num(3))>>,
        <<FunctionDef("poke", <<"x">>,
              <<Assignment(MemberAccess(Id("this"), f), Id("x"))>>),
          FunctionDef("peek", <<>>,
              <<println(MemberAccess(Id("this"), "a")),
                println(MemberAccess(Id("this"), "b")),
                println(MemberAccess(Id("this"), "_v"))>>)>>)

FieldAssign(c, f, x) ==
    <<FieldClass(f), VarDeclaration("o", NewExpression("F", <<>>)),
      IF c = "top" THEN Assignment(MemberAccess(Id("o"), f), Literal(x))
      ELSE MethodCall(Id("o"), "poke", <<Literal(x)>>),
      MethodCall(Id("o"), "peek", <<>>)>>

\* func say(x) { println(x); return x + 1; }
\* class N { var a = say(1); var b = say(this.a); var c = say(self.b);
\*           func init(p, ...) { println("init"); println(p); ... } }
\* var o = new N(5, ...); println("made"); for a class without init and
\* with an init of 0 .. MaxLen parameters, and 0 .. MaxLen arguments
Constructors == {"none"} \cup {ToString(n) : n \in 0..MaxLen}

NewLines ==
    {[s |-> "new", c |-> c, w |-> "", x |-> ToString(n)] :
        c \in Constructors, n \in 0..MaxLen}

Parameters == <<"p", "q", "r", "s">>

NewClass(c) ==
    ClassDef("N",
        <<VarDeclaration("a", FunctionCall("say", <<Num(1)>>)),
          VarDeclaration("b",
              FunctionCall("say", <<MemberAccess(Id("this"), "a")>>)),
          VarDeclaration("c",
              FunctionCall("say", <<MemberAccess(Id("self"), "b")>>))>>,
        IF c = "none" THEN <<>>
        ELSE <<FunctionDef("init", SubSeq(Parameters, 1, Number(c)),
                   <<println(Str("init"))>>
                   \o [k \in 1..Number(c) |-> println(Id(Parameters[k]))])>>)

New(c, n) ==
    <<FunctionDef("say", <<"x">>,
          <<println(Id("x")), Return(BinaryOp(Id("x"), "+", Num(1)))>>),
      NewClass(c),
      VarDeclaration("o", NewExpression("N", [k \in 1..n |-> Num(4 + k)])),
      println(Str("made"))>>

\* The read-eval-print loop: lines that bind, read and update the top-level
\* variable g and the function fg, and lines that fail after or inside them
Sessions ==
    {"bind", "read", "update", "define", "call", "bind_fail", "block_fail",
     "call_fail", "break"}

SessionLines == {[s |-> "repl", c |-> "", w |-> "", x |-> x] : x \in Sessions}

Session(x) ==
    CASE x = "bind" -> <<VarDeclaration("g", Num(1)), println(Id("g"))>>
      [] x = "read" -> <<println(Id("g"))>>
      [] x = "update" ->
            <<Assignment(Id("g"), BinaryOp(Id("g"), "+", Num(1))),
              println(Id("g"))>>
      [] x = "define" -> <<FunctionDef("fg", <<>>, <<Return(Num(5))>>)>>
      [] x = "call" -> <<println(FunctionCall("fg", <<>>))>>
      [] x = "bind_fail" ->
            <<VarDeclaration("g", Num(3)), println(Id("h")),
              println(Str("end"))>>
      [] x = "block_fail" ->
            <<IfStatement(BoolLiteral(TRUE),
                  <<VarDeclaration("t", Num(1)), println(Id("h"))>>, <<>>)>>
      [] x = "call_fail" ->
            <<FunctionDef("ff", <<>>, <<Return(Id("h"))>>),
              println(FunctionCall("ff", <<>>))>>
      [] x = "break" -> <<Break>>

\* A break or continue in the body of a function or method, outside any
\* loop of that body; the call stands in a loop of the caller (or in none).
Sites == {"while", "foreach", "inner", "try", "none"}

Callees == {"func", "method", "nested", "if", "loop_before"}

UnwindLines ==
    {[s |-> "unwind", c |-> c, w |-> w, x |-> x] :
        c \in Sites, w \in Callees, x \in {"break", "continue"}}

Signal(x) == IF x = "break" THEN Break ELSE Continue

Signalling(w, x) ==
    LET body == <<println(Str("in")), Signal(x), println(Str("after"))>>
    IN  CASE w = "func" -> <<FunctionDef("g", <<>>, body)>>
          [] w = "method" ->
                <<ClassDef("K", <<>>, <<FunctionDef("m", <<>>, body)>>),
                  VarDeclaration("o", NewExpression("K", <<>>))>>
          [] w = "nested" ->
                <<FunctionDef("h", <<>>, body),
                  FunctionDef("g", <<>>,
                      <<FunctionCall("h", <<>>), println(Str("after"))>>)>>
          [] w = "if" ->
                <<FunctionDef("g", <<>>,
                      <<IfStatement(BoolLiteral(TRUE), body, <<>>),
                        println(Str("after"))>>)>>
          [] w = "loop_before" ->
                <<FunctionDef("g", <<>>,
                      Loop("while", "k", 1, <<println(Str("k"))>>) \o body)>>

Unwinding(c, w, x) ==
    LET call == IF w = "method" THEN MethodCall(Id("o"), "m", <<>>)
                ELSE FunctionCall("g", <<>>)
        body == <<println(Str("b")), call, println(Str("r"))>>
    IN  Signalling(w, x)
        \o (CASE c = "while" -> Loop("while", "i", 2, body)
              [] c = "foreach" -> Loop("foreach", "i", 2, body)
              [] c = "inner" ->
                    Loop("while", "i", 2,
                         <<println(Str("o"))>> \o Loop("foreach", "j", 2, body)
                         \o <<println(Str("p"))>>)
              [] c = "try" ->
                    Loop("while", "i", 2,
                         <<TryCatch(body, "e", <<println(Str("c"))>>)>>)
              [] c = "none" -> body)
        \o <<println(Str("end"))>>

\* Free functions that read, write and call private members of their
\* argument, called from the top level and from methods of P and of Q
FreeCalls ==
    {"read_top", "write_top", "call_top", "read_method", "read_same",
     "write_method", "call_method", "deep_method", "read_other",
     "write_other", "after_method"}

FreeLines == {[s |-> "free", c |-> "", w |-> "", x |-> x] : x \in FreeCalls}

FreeClass(name) ==
    ClassDef(name,
        <<VarDeclaration("_v", Num(1))>>,
        <<FunctionDef("_m", <<>>, <<Return(Num(3))>>),
          FunctionDef("peek", <<"o">>, <<Return(FunctionCall("fread", <<Id("o")>>))>>),
          FunctionDef("poke", <<"o">>,
              <<FunctionCall("fwrite", <<Id("o")>>),
                Return(FunctionCall("fread", <<Id("o")>>))>>),
          FunctionDef("call", <<"o">>,
              <<Return(FunctionCall("fcall", <<Id("o")>>))>>),
          FunctionDef("via", <<"o">>,
              <<Return(FunctionCall("outer", <<Id("o")>>))>>)>>)

FreeFunctions ==
    <<FunctionDef("fread", <<"o">>, <<Return(MemberAccess(Id("o"), "_v"))>>),
      FunctionDef("fwrite", <<"o">>,
          <<Assignment(MemberAccess(Id("o"), "_v"), Num(9))>>),
      FunctionDef("fcall", <<"o">>, <<Return(MethodCall(Id("o"), "_m", <<>>))>>),
      FunctionDef("outer", <<"o">>, <<Return(FunctionCall("fread", <<Id("o")>>))>>),
      FreeClass("P"), FreeClass("Q"),
      VarDeclaration("p", NewExpression("P", <<>>)),
      VarDeclaration("p2", NewExpression("P", <<>>)),
      VarDeclaration("q", NewExpression("Q", <<>>))>>

FreeCall(x) ==
    FreeFunctions \o
    CASE x = "read_top" -> <<println(FunctionCall("fread", <<Id("p")>>))>>
      [] x = "write_top" -> <<FunctionCall("fwrite", <<Id("p")>>)>>
      [] x = "call_top" -> <<println(FunctionCall("fcall", <<Id("p")>>))>>
      [] x = "read_method" -> <<println(MethodCall(Id("p"), "peek", <<Id("p")>>))>>
      [] x = "read_same" -> <<println(MethodCall(Id("p"), "peek", <<Id("p2")>>))>>
      [] x = "write_method" ->
            <<println(MethodCall(Id("p"), "poke", <<Id("p2")>>))>>
      [] x = "call_method" ->
            <<println(MethodCall(Id("p"), "call", <<Id("p2")>>))>>
      [] x = "deep_method" ->
            <<println(MethodCall(Id("p"), "via", <<Id("p2")>>))>>
      [] x = "read_other" -> <<println(MethodCall(Id("q"), "peek", <<Id("p")>>))>>
      [] x = "write_other" -> <<println(MethodCall(Id("q"), "poke", <<Id("p")>>))>>
      [] x = "after_method" ->
            <<println(MethodCall(Id("p"), "peek", <<Id("p")>>)),
              println(FunctionCall("fread", <<Id("p")>>))>>

Lines ==
    FrameLines \cup ScopeLines \cup ErrorLines \cup ReturnLines \cup LoopLines
    \cup ClosureLines \cup PrivateLines \cup LogicLines \cup AssignLines
    \cup ItemLines \cup RangeLines \cup MemberLines \cup SliceLines
    \cup EqualLines \cup DivideLines \cup EachLines \cup FieldLines
    \cup NewLines \cup SessionLines \cup UnwindLines \cup FreeLines

Source(line) ==
    CASE line.s = "frame" -> Wrapper(line.w, Construct(line.c, Ending(line.x)))
      [] line.s = "scope" -> Wrapper(line.w, Scope(line.c, line.x))
      [] line.s = "errors" -> Guarded(line.w, Failing(line.x))
      [] line.s = "return" -> Returning(line.c, line.w, line.x)
      [] line.s = "loops" -> NestedLoops(line.c, line.w, line.x)
      [] line.s = "closure" -> Closure(line.x)
      [] line.s = "private" -> Classes \o Access(line.x)
      [] line.s = "logic" -> Logic(line.x)
      [] line.s = "assign" -> Assign(line.x)
      [] line.s = "item" -> ItemAssign(Number(line.c), line.x)
      [] line.s = "member" -> Membership(line.c, line.w, line.x)
      [] line.s = "slicearray" -> Slice("array", line.w, line.x)
      [] line.s = "slicestring" -> Slice("string", line.w, line.x)
      [] line.s = "slicenumber" -> Slice("number", line.w, line.x)
      [] line.s = "equal" -> Equal(line.c, line.w, line.x)
      [] line.s = "divide" -> Divide(Number(line.c), line.w, Number(line.x))
      [] line.s = "each" -> Each(line.c, line.w, Number(line.x))
      [] line.s = "field" -> FieldAssign(line.c, line.w, Number(line.x))
      [] line.s = "new" -> New(line.c, Number(line.x))
      [] line.s = "repl" -> Session(line.x)
      [] line.s = "unwind" -> Unwinding(line.c, line.w, line.x)
      [] line.s = "free" -> FreeCall(line.x)
      [] line.s = "range" -> RangeLoop(Number(line.c), Number(line.x), line.w)

Families == {[s |-> l.s, c |-> l.c, w |-> l.w] : l \in Lines}

(***************************************************************************)
(* class Lexer (lexer_0.py).  The source is a sequence of characters; a    *)
(* lexer is the record of the object's fields, with the exception that     *)
(* ended tokenize in exc and msg (the "Lexer error at line l, column c: "  *)
(* in front of the message is left out).  Positions count from 0.          *)
(***************************************************************************)
\* class Token, with the column
LexerToken(type, value, line, column, filename) ==
    [type |-> type, value |-> value, line |-> line, column |-> column,
     filename |-> filename]

\* What peek and advance return at the end of the source
NoChar == "<None>"

\* Lexer.__init__; scanned is history: the tokens before the mapping is
\* applied to them
Lexer(source, mapping) ==
    [source |-> source, mapping |-> mapping, pos |-> 0, line |-> 1,
     column |-> 1, tokens |-> <<>>, exc |-> "", msg |-> "",
     returned |-> FALSE, scanned |-> <<>>]

keywords ==
    ("var" :> "VAR") @@ ("func" :> "FUNC") @@ ("return" :> "RETURN")
    @@ ("if" :> "IF") @@ ("then" :> "THEN") @@ ("else" :> "ELSE")
    @@ ("while" :> "WHILE") @@ ("for" :> "FOR") @@ ("foreach" :> "FOREACH")
    @@ ("in" :> "IN") @@ ("not_in" :> "NOT_IN") @@ ("break" :> "BREAK")
    @@ ("continue" :> "CONTINUE") @@ ("class" :> "CLASS") @@ ("new" :> "NEW")
    @@ ("true" :> "TRUE") @@ ("false" :> "FALSE") @@ ("null" :> "NULL")
    @@ ("try" :> "TRY") @@ ("catch" :> "CATCH") @@ ("raise" :> "RAISE")
    @@ ("assert" :> "ASSERT") @@ ("and" :> "AND") @@ ("or" :> "OR")
    @@ ("not" :> "NOT")

\* str.isdigit, str.isalpha and the blanks of skip_whitespace, on the
\* characters of the sources
DigitValue ==
    ("0" :> 0) @@ ("1" :> 1) @@ ("2" :> 2) @@ ("3" :> 3) @@ ("4" :> 4)
    @@ ("5" :> 5) @@ ("6" :> 6) @@ ("7" :> 7) @@ ("8" :> 8) @@ ("9" :> 9)

isdigit(char) == char \in DOMAIN DigitValue

isalpha(char) ==
    char \in {"a", "b", "c", "d", "e", "f", "g", "h", "i", "j", "k", "l", "m",
              "n", "o", "p", "q", "r", "s", "t", "u", "v", "w", "x", "y", "z",
              "A", "B", "C", "D", "E", "F", "G", "H", "I", "J", "K", "L", "M",
              "N", "O", "P", "Q", "R", "S", "T", "U", "V", "W", "X", "Y", "Z"}

isalnum(char) == isalpha(char) \/ isdigit(char)

Blank(char) == char \in {" ", "\t", "\r", "\n"}

\* A mutant of map_line: the first entry at or before the line decides.
RECURSIVE map_line_first(_, _, _, _, _)
map_line_first(mapping, i, line, file, lnum) ==
    IF i > Len(mapping) THEN <<file, lnum>>
    ELSE IF line >= mapping[i][1]
    THEN <<mapping[i][2], mapping[i][3] + (line - mapping[i][1])>>
    ELSE <<file, lnum>>

\* Lexer.map_line: the loop from entry i on, with the locals file and lnum
RECURSIVE map_line(_, _, _, _, _)
map_line(mapping, i, line, file, lnum) ==
    IF i > Len(mapping) THEN <<file, lnum>>
    ELSE IF line >= mapping[i][1]
    THEN map_line(mapping, i + 1, line, mapping[i][2],
                  mapping[i][3] + (line - mapping[i][1]))
    ELSE <<file, lnum>>

\* Lexer.error
lexer_error(L, msg) == [L EXCEPT !.exc = "Exception", !.msg = msg]

\* Lexer.peek
peek(L, offset) ==
    IF L.pos + offset < Len(L.source) THEN L.source[L.pos + offset + 1]
    ELSE NoChar

\* Lexer.advance (the character it returns is peek(L, 0) before it)
lexer_advance(L) ==
    IF L.pos < Len(L.source)
    THEN IF L.source[L.pos + 1] = "\n"
         THEN [L EXCEPT !.pos = @ + 1, !.line = @ + 1, !.column = 1]
         ELSE [L EXCEPT !.pos = @ + 1, !.column = @ + 1]
    ELSE L

RECURSIVE skip_whitespace(_)
skip_whitespace(L) ==
    IF peek(L, 0) # NoChar /\ Blank(peek(L, 0))
    THEN skip_whitespace(lexer_advance(L))
    ELSE L

\* Lexer.skip_comment, called at a '#'
RECURSIVE skip_comment(_)
skip_comment(L) ==
    IF peek(L, 0) # NoChar /\ peek(L, 0) # "\n"
    THEN skip_comment(lexer_advance(L))
    ELSE L

\* int(num_str), float(num_str): a float is kept as its digits without
\* the dot and the number of digits after the dot, trailing zeros dropped
RECURSIVE int(_, _)
int(digits, value) ==
    IF digits = <<>> THEN value
    ELSE int(Tail(digits), 10 * value + DigitValue[Head(digits)])

RECURSIVE Reduced(_)
Reduced(f) ==
    IF f.places > 0 /\ f.digits % 10 = 0
    THEN Reduced([digits |-> f.digits \div 10, places |-> f.places - 1])
    ELSE f

float(num_str) ==
    LET dot == CHOOSE i \in 1..Len(num_str) : num_str[i] = "."
    IN  Reduced([digits |-> int(SelectSeq(num_str, isdigit), 0),
                 places |-> Len(num_str) - dot])

\* Lexer.read_number: the loop, with the locals num_str and has_dot; the
\* result is the lexer with the token appended
RECURSIVE read_number_loop(_, _, _, _)
read_number_loop(L, num_str, has_dot, start) ==
    LET char == peek(L, 0) IN
    IF char # NoChar /\ (isdigit(char) \/ char = ".")
          /\ ~(char = "." /\ has_dot)
    THEN read_number_loop(lexer_advance(L), Append(num_str, char),
                          has_dot \/ char = ".", start)
    ELSE IF has_dot
    THEN [L EXCEPT !.tokens =
            Append(@, LexerToken("FLOAT", float(num_str), start.line,
                                 start.column, "<input>"))]
    ELSE [L EXCEPT !.tokens =
            Append(@, LexerToken("INT", int(num_str, 0), start.line,
                                 start.column, "<input>"))]

read_number(L) == read_number_loop(L, <<>>, FALSE, L)

\* Lexer.read_string: the loop, with the locals quote, triple and string_val.
\* A backslash that ends the source makes `string_val += next_char` add
\* None to a string, which raises TypeError.
RECURSIVE read_string_loop(_, _, _, _, _)
read_string_loop(L, quote, triple, string_val, start) ==
    LET closed ==
            IF triple
            THEN peek(L, 0) = quote /\ peek(L, 1) = quote /\ peek(L, 2) = quote
            ELSE peek(L, 0) = quote
        after == lexer_advance(L)
        next_char == peek(after, 0)
    IN  IF peek(L, 0) = NoChar THEN lexer_error(L, "Unterminated string")
        ELSE IF closed
        THEN [(IF triple THEN lexer_advance(lexer_advance(lexer_advance(L)))
               ELSE lexer_advance(L))
                EXCEPT !.tokens =
                   Append(@, LexerToken("STRING", string_val, start.line,
                                        start.column, "<input>"))]
        ELSE IF peek(L, 0) = "\\"
        THEN IF next_char = NoChar
             THEN [after EXCEPT !.exc = "TypeError",
                     !.msg = "can only concatenate str (not \"NoneType\") to str"]
             ELSE read_string_loop(lexer_advance(after), quote, triple,
                     string_val \o (CASE next_char = "n" -> "\n"
                                      [] next_char = "t" -> "\t"
                                      [] OTHER -> next_char),
                     start)
        ELSE read_string_loop(after, quote, triple,
                              string_val \o peek(L, 0), start)

read_string(L) ==
    LET quote == peek(L, 0)
        opened == lexer_advance(L)
        triple == peek(opened, 0) = quote /\ peek(opened, 1) = quote
    IN  read_string_loop(IF triple THEN lexer_advance(lexer_advance(opened))
                         ELSE opened,
                         quote, triple, "", L)

RECURSIVE read_identifier_loop(_, _, _)
read_identifier_loop(L, ident, start) ==
    LET char == peek(L, 0) IN
    IF char # NoChar /\ (isalnum(char) \/ char = "_")
    THEN read_identifier_loop(lexer_advance(L), ident \o char, start)
    ELSE [L EXCEPT !.tokens =
            Append(@, IF ident \in DOMAIN keywords
                      THEN LexerToken(keywords[ident], "", start.line,
                                      start.column, "<input>")
                      ELSE LexerToken("IDENTIFIER", ident, start.line,
                                      start.column, "<input>"))]

read_identifier(L) == read_identifier_loop(L, "", L)

\* tokenize: the operator and delimiter branches.  An operator character
\* has the token type it gives alone and, by the character after it, the
\* types of its two-character tokens.
Operators ==
    ("+" :> <<"PLUS", "=" :> "PLUS_ASSIGN">>)
    @@ ("-" :> <<"MINUS", "=" :> "MINUS_ASSIGN">>)
    @@ ("*" :> <<"MULTIPLY", "=" :> "MULTIPLY_ASSIGN">>)
    @@ ("/" :> <<"DIVIDE", "=" :> "DIVIDE_ASSIGN">>)
    @@ ("%" :> <<"MODULO", <<>>>>)
    @@ ("=" :> <<"ASSIGN", ("=" :> "EQ") @@ (">" :> "ARROW")>>)
    @@ ("!" :> <<"NOT", "=" :> "NE">>)
    @@ ("<" :> <<"LT", "=" :> "LE">>)
    @@ (">" :> <<"GT", "=" :> "GE">>)
    @@ ("(" :> <<"LPAREN", <<>>>>) @@ (")" :> <<"RPAREN", <<>>>>)
    @@ ("{" :> <<"LBRACE", <<>>>>) @@ ("}" :> <<"RBRACE", <<>>>>)
    @@ ("[" :> <<"LBRACKET", <<>>>>) @@ ("]" :> <<"RBRACKET", <<>>>>)
    @@ ("," :> <<"COMMA", <<>>>>) @@ (":" :> <<"COLON", <<>>>>)
    @@ (";" :> <<"SEMICOLON", <<>>>>)
    @@ ("." :> <<"DOT", "." :> "DOTDOT">>)

read_operator(L) ==
    LET char == peek(L, 0)
        after == lexer_advance(L)
        second == peek(after, 0)
        Emit(K, type) ==
            [K EXCEPT !.tokens =
                Append(@, LexerToken(type, "", L.line, L.column, "<input>"))]
    IN  IF second \in DOMAIN Operators[char][2]
        THEN Emit(lexer_advance(after), Operators[char][2][second])
        ELSE Emit(after, Operators[char][1])

\* tokenize: one turn of the while loop, entered with pos < len(source)
tokenize_turn(L) ==
    LET K == skip_whitespace(L)
        char == peek(K, 0)
    IN  IF K.pos >= Len(K.source) THEN K
        ELSE IF char = "#" THEN skip_comment(K)
        ELSE IF isdigit(char) THEN read_number(K)
        ELSE IF char \in {"\"", "'"} THEN read_string(K)
        ELSE IF isalpha(char) \/ char = "_" THEN read_identifier(K)
        ELSE IF char \in DOMAIN Operators THEN read_operator(K)
        ELSE lexer_error(K, "Unexpected character: " \o char)

\* tokenize: after the loop, EOF is appended and with a mapping every token
\* gets the file and line of map_line
Mapped(mapping, t) ==
    LET place == map_line(mapping, 1, t.line, "<input>", t.line)
    IN  LexerToken(t.type, t.value, place[2], t.column, place[1])

tokenize_return(L) ==
    LET tokens ==
            Append(L.tokens,
                   LexerToken("EOF", "", L.line, L.column, "<input>"))
    IN  [L EXCEPT !.returned = TRUE, !.scanned = tokens,
                  !.tokens = IF L.mapping # <<>>
                             THEN [i \in 1..Len(tokens) |->
                                      Mapped(L.mapping, tokens[i])]
                             ELSE tokens]

(***************************************************************************)
(* class Parser (parser_1.py): recursive descent over the lexer's tokens.  *)
(* A parse function takes the token list and the position self.pos, and    *)
(* gives [pos, error, node]: the position it leaves, the message of the    *)
(* exception Parser.error raised ("" when none; the "Parse error at        *)
(* file:line,column: " in front of it is left out) and the node it         *)
(* returns.  Positions count from 0 as in the source.                      *)
(***************************************************************************)
\* class Token (lexer_0.py); every token of the model's texts is on line 1
Token(type, value) ==
    [type |-> type, value |-> value, line |-> 1, filename |-> "<input>"]

FloatLiteral(value) == [type |-> "FloatLiteral", value |-> value]

\* The node of `var a, b = 1`; its class is not among those of
\* ast_nodes_2.py, the field is the one the language description names.
MultiVarDeclaration(declarations) ==
    [type |-> "MultiVarDeclaration", declarations |-> declarations]

Ok(pos, node) == [pos |-> pos, error |-> "", node |-> node]

\* Parser.error
error(pos, msg) == [pos |-> pos, error |-> msg, node |-> NoNode]

\* The rest of a parse function after a call that may have raised
Parsed(R, K(_)) == IF R.error # "" THEN R ELSE K(R)

\* Parser.current_token
current_token(tokens, pos) ==
    IF pos < Len(tokens) THEN tokens[pos + 1] ELSE tokens[Len(tokens)]

\* Parser.peek_token
peek_token(tokens, pos, offset) ==
    IF pos + offset < Len(tokens) THEN tokens[pos + offset + 1]
    ELSE tokens[Len(tokens)]

\* Parser.advance: the position it leaves
advance(tokens, pos) == IF pos < Len(tokens) - 1 THEN pos + 1 ELSE pos

\* Parser.expect: the node is the token
expect(tokens, pos, token_type) ==
    IF current_token(tokens, pos).type # token_type
    THEN error(pos, "Expected TokenType." \o token_type \o ", got TokenType."
                    \o current_token(tokens, pos).type)
    ELSE Ok(advance(tokens, pos), current_token(tokens, pos))

\* Parser.attach_meta
attach_meta(node, token) ==
    [line |-> token.line, file |-> token.filename] @@ node

\* The binary levels of the expression grammar, loosest first:
\* parse_logical_or, parse_logical_and, parse_equality, parse_comparison,
\* parse_additive, parse_multiplicative; each is `left = <next level>;
\* while current is one of its operators: advance, right = <next level>,
\* left = BinaryOp(left, op, right)`.
\* A mutant of the binary levels: + and - bind tighter than * / %.
BinaryLevels_additive_tighter ==
    << {"OR"}, {"AND"}, {"EQ", "NE"},
       {"LT", "LE", "GT", "GE", "IN", "NOT_IN"},
       {"MULTIPLY", "DIVIDE", "MODULO"}, {"PLUS", "MINUS"} >>

BinaryLevels ==
    << {"OR"}, {"AND"}, {"EQ", "NE"},
       {"LT", "LE", "GT", "GE", "IN", "NOT_IN"},
       {"PLUS", "MINUS"}, {"MULTIPLY", "DIVIDE", "MODULO"} >>

\* The operator a binary level writes into BinaryOp for a token type
op_map(token_type) ==
    CASE token_type = "OR" -> "or"
      [] token_type = "AND" -> "and"
      [] token_type = "EQ" -> "=="
      [] token_type = "NE" -> "!="
      [] token_type = "LT" -> "<"
      [] token_type = "LE" -> "<="
      [] token_type = "GT" -> ">"
      [] token_type = "GE" -> ">="
      [] token_type = "IN" -> "in"
      [] token_type = "NOT_IN" -> "not_in"
      [] token_type = "PLUS" -> "+"
      [] token_type = "MINUS" -> "-"
      [] token_type = "MULTIPLY" -> "*"
      [] token_type = "DIVIDE" -> "/"
      [] token_type = "MODULO" -> "%"

RECURSIVE parse_binary(_, _, _)
RECURSIVE parse_binary_loop(_, _, _)
RECURSIVE parse_unary(_, _)
RECURSIVE parse_postfix_expression(_, _)
RECURSIVE parse_postfix_loop(_, _)
RECURSIVE parse_arguments(_, _, _)
RECURSIVE parse_primary(_, _)
RECURSIVE parse_array_literal(_, _)
RECURSIVE parse_elements(_, _, _)
RECURSIVE parse_dict_literal(_, _)
RECURSIVE parse_pairs(_, _, _)
RECURSIVE parse_statement(_, _)
RECURSIVE parse_block(_, _, _)
RECURSIVE parse_declarations(_, _, _)
RECURSIVE parse_params(_, _, _)
RECURSIVE parse_class_body(_, _, _, _)
RECURSIVE parse_if_statement(_, _)

\* Parser.parse_expression
parse_expression(tokens, pos) == parse_binary(tokens, pos, 1)

\* The operand of a binary level: the next level, parse_unary for the last
parse_operand(tokens, pos, level) ==
    IF level = Len(BinaryLevels) THEN parse_unary(tokens, pos)
    ELSE parse_binary(tokens, pos, level + 1)

\* The while loop of a binary level; L holds left and the position
parse_binary_loop(tokens, L, level) ==
    IF current_token(tokens, L.pos).type \notin BinaryLevels[level] THEN L
    ELSE Parsed(parse_operand(tokens, advance(tokens, L.pos), level), LAMBDA R :
           parse_binary_loop(tokens,
               Ok(R.pos, BinaryOp(L.node,
                                  op_map(current_token(tokens, L.pos).type),
                                  R.node)),
               level))

parse_binary(tokens, pos, level) ==
    Parsed(parse_operand(tokens, pos, level), LAMBDA L :
      parse_binary_loop(tokens, L, level))

\* Parser.parse_unary
parse_unary(tokens, pos) ==
    IF current_token(tokens, pos).type = "MINUS"
    THEN Parsed(parse_unary(tokens, advance(tokens, pos)), LAMBDA R :
           Ok(R.pos, UnaryOp("-", R.node)))
    ELSE IF current_token(tokens, pos).type = "NOT"
    THEN Parsed(parse_unary(tokens, advance(tokens, pos)), LAMBDA R :
           Ok(R.pos, UnaryOp("not", R.node)))
    ELSE parse_postfix_expression(tokens, pos)

\* `while current is not RPAREN: arguments.append(parse_expression()); if
\* current is COMMA: advance` (parse_postfix_expression, parse_primary)
parse_arguments(tokens, pos, arguments) ==
    IF current_token(tokens, pos).type = "RPAREN" THEN Ok(pos, arguments)
    ELSE Parsed(parse_expression(tokens, pos), LAMBDA R :
           parse_arguments(tokens,
               IF current_token(tokens, R.pos).type = "COMMA"
               THEN advance(tokens, R.pos) ELSE R.pos,
               Append(arguments, R.node)))

\* The `while True` of parse_postfix_expression; E holds expr
parse_postfix_loop(tokens, E) ==
    LET type == current_token(tokens, E.pos).type
        next == advance(tokens, E.pos)
    IN  IF type = "DOT"
        THEN Parsed(expect(tokens, next, "IDENTIFIER"), LAMBDA member_token :
               parse_postfix_loop(tokens,
                   Ok(member_token.pos,
                      MemberAccess(E.node, member_token.node.value))))
        ELSE IF type = "LBRACKET"
        THEN Parsed(parse_expression(tokens, next), LAMBDA first_expr :
               IF current_token(tokens, first_expr.pos).type = "COLON"
               THEN Parsed(parse_expression(tokens,
                               advance(tokens, first_expr.pos)),
                           LAMBDA end_expr :
                    Parsed(expect(tokens, end_expr.pos, "RBRACKET"), LAMBDA R :
                      parse_postfix_loop(tokens,
                          Ok(R.pos, SliceAccess(E.node, first_expr.node,
                                                end_expr.node)))))
               ELSE Parsed(expect(tokens, first_expr.pos, "RBRACKET"), LAMBDA R :
                      parse_postfix_loop(tokens,
                          Ok(R.pos, IndexAccess(E.node, first_expr.node)))))
        ELSE IF type = "LPAREN"
        THEN Parsed(parse_arguments(tokens, next, <<>>), LAMBDA arguments :
             Parsed(expect(tokens, arguments.pos, "RPAREN"), LAMBDA R :
               IF E.node.type = "Identifier"
               THEN parse_postfix_loop(tokens,
                        Ok(R.pos, FunctionCall(E.node.name, arguments.node)))
               ELSE IF E.node.type = "MemberAccess"
               THEN parse_postfix_loop(tokens,
                        Ok(R.pos, MethodCall(E.node.object, E.node.member,
                                             arguments.node)))
               ELSE error(R.pos, "Only identifiers or object members can be called as functions")))
        ELSE E

\* Parser.parse_postfix_expression
parse_postfix_expression(tokens, pos) ==
    Parsed(parse_primary(tokens, pos), LAMBDA E : parse_postfix_loop(tokens, E))

\* Parser.parse_primary
parse_primary(tokens, pos) ==
    LET token == current_token(tokens, pos)
        next == advance(tokens, pos)
    IN  CASE token.type = "INT" -> Ok(next, IntLiteral(token.value))
          [] token.type = "FLOAT" -> Ok(next, FloatLiteral(token.value))
          [] token.type = "STRING" -> Ok(next, StringLiteral(token.value))
          [] token.type = "TRUE" -> Ok(next, BoolLiteral(TRUE))
          [] token.type = "FALSE" -> Ok(next, BoolLiteral(FALSE))
          [] token.type = "NULL" -> Ok(next, NullLiteral)
          [] token.type = "IDENTIFIER" -> Ok(next, Identifier(token.value))
          [] token.type = "NEW" ->
                Parsed(expect(tokens, next, "IDENTIFIER"), LAMBDA class_token :
                Parsed(expect(tokens, class_token.pos, "LPAREN"), LAMBDA R1 :
                Parsed(parse_arguments(tokens, R1.pos, <<>>), LAMBDA arguments :
                Parsed(expect(tokens, arguments.pos, "RPAREN"), LAMBDA R2 :
                  Ok(R2.pos, NewExpression(class_token.node.value,
                                           arguments.node))))))
          [] token.type = "LBRACKET" -> parse_array_literal(tokens, pos)
          [] token.type = "LBRACE" -> parse_dict_literal(tokens, pos)
          [] token.type = "LPAREN" ->
                Parsed(parse_expression(tokens, next), LAMBDA expr :
                Parsed(expect(tokens, expr.pos, "RPAREN"), LAMBDA R :
                  Ok(R.pos, expr.node)))
          [] OTHER -> error(pos, "Unexpected token: TokenType." \o token.type)

\* The while loop of parse_array_literal
parse_elements(tokens, pos, elements) ==
    IF current_token(tokens, pos).type = "RBRACKET" THEN Ok(pos, elements)
    ELSE Parsed(parse_expression(tokens, pos), LAMBDA R :
           parse_elements(tokens,
               IF current_token(tokens, R.pos).type = "COMMA"
               THEN advance(tokens, R.pos) ELSE R.pos,
               Append(elements, R.node)))

\* Parser.parse_array_literal
parse_array_literal(tokens, pos) ==
    Parsed(expect(tokens, pos, "LBRACKET"), LAMBDA R1 :
    Parsed(parse_elements(tokens, R1.pos, <<>>), LAMBDA elements :
    Parsed(expect(tokens, elements.pos, "RBRACKET"), LAMBDA R2 :
      Ok(R2.pos, ArrayLiteral(elements.node)))))

\* The while loop of parse_dict_literal
parse_pairs(tokens, pos, pairs) ==
    IF current_token(tokens, pos).type = "RBRACE" THEN Ok(pos, pairs)
    ELSE IF current_token(tokens, pos).type # "STRING"
    THEN error(pos, "Dictionary keys must be strings")
    ELSE Parsed(parse_expression(tokens, pos), LAMBDA key :
         Parsed(expect(tokens, key.pos, "COLON"), LAMBDA R :
         Parsed(parse_expression(tokens, R.pos), LAMBDA value :
           parse_pairs(tokens,
               IF current_token(tokens, value.pos).type = "COMMA"
               THEN advance(tokens, value.pos) ELSE value.pos,
               Append(pairs, <<key.node, value.node>>)))))

\* Parser.parse_dict_literal
parse_dict_literal(tokens, pos) ==
    Parsed(expect(tokens, pos, "LBRACE"), LAMBDA R1 :
    Parsed(parse_pairs(tokens, R1.pos, <<>>), LAMBDA pairs :
    Parsed(expect(tokens, pairs.pos, "RBRACE"), LAMBDA R2 :
      Ok(R2.pos, DictLiteral(pairs.node)))))

\* `while current is not RBRACE: stmt = parse_statement(); if stmt:
\* block.append(stmt)`, the loop of every block
parse_block(tokens, pos, block) ==
    IF current_token(tokens, pos).type = "RBRACE" THEN Ok(pos, block)
    ELSE Parsed(parse_statement(tokens, pos), LAMBDA stmt :
           parse_block(tokens, stmt.pos, Append(block, stmt.node)))

\* `{ statements }`: expect(LBRACE), the loop, expect(RBRACE)
parse_braces(tokens, pos) ==
    Parsed(expect(tokens, pos, "LBRACE"), LAMBDA R1 :
    Parsed(parse_block(tokens, R1.pos, <<>>), LAMBDA block :
    Parsed(expect(tokens, block.pos, "RBRACE"), LAMBDA R2 :
      Ok(R2.pos, block.node))))

\* The `while True` of parse_var_declaration
parse_declarations(tokens, pos, declarations) ==
    Parsed(expect(tokens, pos, "IDENTIFIER"), LAMBDA name_token :
    Parsed(IF current_token(tokens, name_token.pos).type = "ASSIGN"
           THEN parse_expression(tokens, advance(tokens, name_token.pos))
           ELSE Ok(name_token.pos, NullLiteral), LAMBDA value :
      IF current_token(tokens, value.pos).type = "COMMA"
      THEN parse_declarations(tokens, advance(tokens, value.pos),
               Append(declarations,
                      VarDeclaration(name_token.node.value, value.node)))
      ELSE Ok(value.pos,
              Append(declarations,
                     VarDeclaration(name_token.node.value, value.node)))))

\* Parser.parse_var_declaration
parse_var_declaration(tokens, pos) ==
    Parsed(expect(tokens, pos, "VAR"), LAMBDA R :
    Parsed(parse_declarations(tokens, R.pos, <<>>), LAMBDA declarations :
      IF Len(declarations.node) = 1
      THEN Ok(declarations.pos, declarations.node[1])
      ELSE Ok(declarations.pos, MultiVarDeclaration(declarations.node))))

\* The parameter loop of parse_function_def
parse_params(tokens, pos, params) ==
    IF current_token(tokens, pos).type = "RPAREN" THEN Ok(pos, params)
    ELSE Parsed(expect(tokens, pos, "IDENTIFIER"), LAMBDA param_token :
           parse_params(tokens,
               IF current_token(tokens, param_token.pos).type = "COMMA"
               THEN advance(tokens, param_token.pos) ELSE param_token.pos,
               Append(params, param_token.node.value)))

\* Parser.parse_function_def
parse_function_def(tokens, pos) ==
    Parsed(expect(tokens, pos, "FUN"), LAMBDA R1 :
    Parsed(expect(tokens, R1.pos, "IDENTIFIER"), LAMBDA name_token :
    Parsed(expect(tokens, name_token.pos, "LPAREN"), LAMBDA R2 :
    Parsed(parse_params(tokens, R2.pos, <<>>), LAMBDA params :
    Parsed(expect(tokens, params.pos, "RPAREN"), LAMBDA R3 :
    Parsed(parse_braces(tokens, R3.pos), LAMBDA body :
      Ok(body.pos, FunctionDef(name_token.node.value, params.node,
                               body.node))))))))

\* The while loop of parse_class_def
parse_class_body(tokens, pos, members, methods) ==
    IF current_token(tokens, pos).type = "RBRACE"
    THEN Ok(pos, [members |-> members, methods |-> methods])
    ELSE IF current_token(tokens, pos).type = "VAR"
    THEN Parsed(parse_var_declaration(tokens, pos), LAMBDA member :
           parse_class_body(tokens,
               IF current_token(tokens, member.pos).type = "SEMICOLON"
               THEN advance(tokens, member.pos) ELSE member.pos,
               Append(members, member.node), methods))
    ELSE IF current_token(tokens, pos).type = "FUN"
    THEN Parsed(parse_function_def(tokens, pos), LAMBDA method :
           parse_class_body(tokens, method.pos, members,
                            Append(methods, method.node)))
    ELSE error(pos, "Unexpected token in class body: TokenType."
                    \o current_token(tokens, pos).type)

\* Parser.parse_class_def
parse_class_def(tokens, pos) ==
    Parsed(expect(tokens, pos, "CLASS"), LAMBDA R1 :
    Parsed(expect(tokens, R1.pos, "IDENTIFIER"), LAMBDA name_token :
    Parsed(expect(tokens, name_token.pos, "LBRACE"), LAMBDA R2 :
    Parsed(parse_class_body(tokens, R2.pos, <<>>, <<>>), LAMBDA body :
    Parsed(expect(tokens, body.pos, "RBRACE"), LAMBDA R3 :
      Ok(R3.pos, ClassDef(name_token.node.value, body.node.members,
                          body.node.methods)))))))

\* Parser.parse_try_catch
parse_try_catch(tokens, pos) ==
    Parsed(expect(tokens, pos, "TRY"), LAMBDA try_tok :
    Parsed(parse_braces(tokens, try_tok.pos), LAMBDA try_block :
    Parsed(expect(tokens, try_block.pos, "CATCH"), LAMBDA R :
    Parsed(expect(tokens, R.pos, "IDENTIFIER"), LAMBDA catch_var_tok :
    Parsed(parse_braces(tokens, catch_var_tok.pos), LAMBDA catch_block :
      Ok(catch_block.pos,
         attach_meta(TryCatch(try_block.node, catch_var_tok.node.value,
                              catch_block.node),
                     try_tok.node)))))))

\* Parser.parse_assert
parse_assert(tokens, pos) ==
    Parsed(expect(tokens, pos, "ASSERT"), LAMBDA as_tok :
    Parsed(expect(tokens, as_tok.pos, "LPAREN"), LAMBDA R1 :
    Parsed(parse_expression(tokens, R1.pos), LAMBDA expr :
    Parsed(IF current_token(tokens, expr.pos).type = "COMMA"
           THEN parse_expression(tokens, advance(tokens, expr.pos))
           ELSE Ok(expr.pos, NoNode), LAMBDA msg :
    Parsed(expect(tokens, msg.pos, "RPAREN"), LAMBDA R2 :
      Ok(R2.pos, attach_meta([type |-> "Assert", expr |-> expr.node,
                              msg |-> msg.node],
                             as_tok.node)))))))

\* Parser.parse_return
parse_return(tokens, pos) ==
    Parsed(expect(tokens, pos, "RETURN"), LAMBDA R :
      IF current_token(tokens, R.pos).type \in {"RBRACE", "EOF"}
      THEN Ok(R.pos, Return(NoNode))
      ELSE Parsed(parse_expression(tokens, R.pos), LAMBDA value :
             Ok(value.pos, Return(value.node))))

\* Parser.parse_if_statement
parse_if_statement(tokens, pos) ==
    Parsed(expect(tokens, pos, "IF"), LAMBDA R1 :
    Parsed(expect(tokens, R1.pos, "LPAREN"), LAMBDA R2 :
    Parsed(parse_expression(tokens, R2.pos), LAMBDA condition :
    Parsed(expect(tokens, condition.pos, "RPAREN"), LAMBDA R3 :
    Parsed(parse_braces(tokens, R3.pos), LAMBDA then_block :
    Parsed(IF current_token(tokens, then_block.pos).type # "ELSE"
           THEN Ok(then_block.pos, NoNode)
           ELSE IF current_token(tokens,
                                 advance(tokens, then_block.pos)).type = "IF"
           THEN Parsed(parse_if_statement(tokens,
                                          advance(tokens, then_block.pos)),
                       LAMBDA nested : Ok(nested.pos, <<nested.node>>))
           ELSE parse_braces(tokens, advance(tokens, then_block.pos)),
           LAMBDA else_block :
      Ok(else_block.pos,
         IfStatement(condition.node, then_block.node, else_block.node))))))))

\* Parser.parse_while_statement
parse_while_statement(tokens, pos) ==
    Parsed(expect(tokens, pos, "WHILE"), LAMBDA R1 :
    Parsed(expect(tokens, R1.pos, "LPAREN"), LAMBDA R2 :
    Parsed(parse_expression(tokens, R2.pos), LAMBDA condition :
    Parsed(expect(tokens, condition.pos, "RPAREN"), LAMBDA R3 :
    Parsed(parse_braces(tokens, R3.pos), LAMBDA body :
      Ok(body.pos, WhileStatement(condition.node, body.node)))))))

\* Parser.parse_for_statement: the range loop, after `for (i`
parse_for_range(tokens, pos, first_var) ==
    Parsed(parse_expression(tokens, advance(tokens, pos)), LAMBDA start :
    Parsed(IF current_token(tokens, start.pos).type = "DOTDOT"
           THEN Ok(advance(tokens, start.pos), NoNode)
           ELSE IF current_token(tokens, start.pos).type = "DOT"
                   /\ peek_token(tokens, start.pos, 1).type = "DOT"
           THEN Ok(advance(tokens, advance(tokens, start.pos)), NoNode)
           ELSE error(start.pos, "expected '..' in for range"), LAMBDA R1 :
    Parsed(parse_expression(tokens, R1.pos), LAMBDA end :
    Parsed(expect(tokens, end.pos, "RPAREN"), LAMBDA R2 :
    Parsed(parse_braces(tokens, R2.pos), LAMBDA body :
      Ok(body.pos, ForStatement(first_var, start.node, end.node,
                                body.node)))))))

\* Parser.parse_for_statement: the iterator loop, after `for (k`
parse_for_each(tokens, pos, first_var) ==
    LET value_token == current_token(tokens, advance(tokens, pos))
    IN  IF value_token.type # "IDENTIFIER"
        THEN error(advance(tokens, pos),
                   "Expected identifier for value variable, got TokenType."
                   \o value_token.type)
        ELSE
        Parsed(expect(tokens, advance(tokens, advance(tokens, pos)), "IN"),
               LAMBDA R1 :
        Parsed(parse_expression(tokens, R1.pos), LAMBDA collection :
        Parsed(expect(tokens, collection.pos, "RPAREN"), LAMBDA R2 :
        Parsed(parse_braces(tokens, R2.pos), LAMBDA body :
          Ok(body.pos, ForeachStatement(first_var, value_token.value,
                                        collection.node, body.node))))))

\* Parser.parse_for_statement
parse_for_statement(tokens, pos) ==
    Parsed(expect(tokens, pos, "FOR"), LAMBDA R1 :
    Parsed(expect(tokens, R1.pos, "LPAREN"), LAMBDA R2 :
      LET first_tok == current_token(tokens, R2.pos)
          next_token == current_token(tokens, advance(tokens, R2.pos))
      IN  IF first_tok.type # "IDENTIFIER"
          THEN error(R2.pos, "for() needs identifier")
          ELSE IF next_token.type = "ASSIGN"
          THEN parse_for_range(tokens, advance(tokens, R2.pos), first_tok.value)
          ELSE IF next_token.type = "ARROW"
          THEN parse_for_each(tokens, advance(tokens, R2.pos), first_tok.value)
          ELSE error(advance(tokens, R2.pos),
                     "Expected '=' or '=>' in for loop, got TokenType."
                     \o next_token.type)))

\* The compound assignments and the operator each stands for
CompoundAssignments ==
    [PLUS_ASSIGN |-> "+", MINUS_ASSIGN |-> "-", MULTIPLY_ASSIGN |-> "*",
     DIVIDE_ASSIGN |-> "/"]

\* Parser.parse_statement: a statement that starts with an identifier
parse_identifier_statement_swapped(tokens, pos) ==
    Parsed(parse_postfix_expression(tokens, pos), LAMBDA postfix :
      LET op_token == current_token(tokens, postfix.pos)
      IN  IF op_token.type = "ASSIGN"
          THEN Parsed(parse_expression(tokens, advance(tokens, postfix.pos)),
                      LAMBDA value :
                 Ok(value.pos, Assignment(postfix.node, value.node)))
          ELSE IF op_token.type \in DOMAIN CompoundAssignments
          THEN Parsed(parse_expression(tokens, advance(tokens, postfix.pos)),
                      LAMBDA rhs :
                 Ok(rhs.pos,
                    Assignment(postfix.node,
                               BinaryOp(rhs.node,
                                        CompoundAssignments[op_token.type],
                                        postfix.node))))
          ELSE postfix)

\* Parser.parse_statement: the IDENTIFIER branch
parse_identifier_statement(tokens, pos) ==
    Parsed(parse_postfix_expression(tokens, pos), LAMBDA postfix :
      LET op_token == current_token(tokens, postfix.pos)
      IN  IF op_token.type = "ASSIGN"
          THEN Parsed(parse_expression(tokens, advance(tokens, postfix.pos)),
                      LAMBDA value :
                 Ok(value.pos, Assignment(postfix.node, value.node)))
          ELSE IF op_token.type \in DOMAIN CompoundAssignments
          THEN Parsed(parse_expression(tokens, advance(tokens, postfix.pos)),
                      LAMBDA rhs :
                 Ok(rhs.pos,
                    Assignment(postfix.node,
                               BinaryOp(postfix.node,
                                        CompoundAssignments[op_token.type],
                                        rhs.node))))
          ELSE postfix)

\* parse_statement taking a `;` for an empty statement and leaving it
parse_simple_statement_keeps_semicolon(tokens, pos) ==
    LET token == current_token(tokens, pos)
    IN  CASE token.type = "VAR" -> parse_var_declaration(tokens, pos)
          [] token.type = "RETURN" -> parse_return(tokens, pos)
          [] token.type = "TRY" -> parse_try_catch(tokens, pos)
          [] token.type = "RAISE" ->
                Parsed(parse_expression(tokens, advance(tokens, pos)),
                       LAMBDA expr :
                  Ok(expr.pos,
                     attach_meta([type |-> "Raise", expr |-> expr.node], token)))
          [] token.type = "ASSERT" -> parse_assert(tokens, pos)
          [] token.type = "BREAK" -> Ok(advance(tokens, pos), Break)
          [] token.type = "CONTINUE" -> Ok(advance(tokens, pos), Continue)
          [] token.type = "IDENTIFIER" -> parse_identifier_statement(tokens, pos)
          [] token.type = "SEMICOLON" -> Ok(pos, NoNode)
          [] OTHER -> error(pos, "Unexpected token: TokenType." \o token.type)

\* Parser.parse_statement: the statements that may end with `;`
parse_simple_statement(tokens, pos) ==
    LET token == current_token(tokens, pos)
    IN  CASE token.type = "VAR" -> parse_var_declaration(tokens, pos)
          [] token.type = "RETURN" -> parse_return(tokens, pos)
          [] token.type = "TRY" -> parse_try_catch(tokens, pos)
          [] token.type = "RAISE" ->
                Parsed(parse_expression(tokens, advance(tokens, pos)),
                       LAMBDA expr :
                  Ok(expr.pos,
                     attach_meta([type |-> "Raise", expr |-> expr.node], token)))
          [] token.type = "ASSERT" -> parse_assert(tokens, pos)
          [] token.type = "BREAK" -> Ok(advance(tokens, pos), Break)
          [] token.type = "CONTINUE" -> Ok(advance(tokens, pos), Continue)
          [] token.type = "IDENTIFIER" -> parse_identifier_statement(tokens, pos)
          [] OTHER -> error(pos, "Unexpected token: TokenType." \o token.type)

\* Parser.parse_statement
parse_statement(tokens, pos) ==
    LET token == current_token(tokens, pos)
    IN  CASE token.type = "FUN" -> parse_function_def(tokens, pos)
          [] token.type = "IF" -> parse_if_statement(tokens, pos)
          [] token.type = "WHILE" -> parse_while_statement(tokens, pos)
          [] token.type = "FOR" -> parse_for_statement(tokens, pos)
          [] token.type = "CLASS" -> parse_class_def(tokens, pos)
          [] OTHER ->
                Parsed(parse_simple_statement(tokens, pos), LAMBDA stmt :
                  IF /\ stmt.node # NoNode
                     /\ current_token(tokens, stmt.pos).type = "SEMICOLON"
                  THEN Ok(advance(tokens, stmt.pos), stmt.node)
                  ELSE stmt)

(***************************************************************************)
(* The texts given to the parser, as the token lists Lexer.tokenize makes  *)
(* of them: one statement of each kind that is not block-terminated, at    *)
(* the top level or in the body of a function, a loop or a method, alone   *)
(* or followed by another statement, written with and without a `;`.       *)
(***************************************************************************)
Keyword(type) == Token(type, "")

Name(value) == Token("IDENTIFIER", value)

Integer(value) == Token("INT", value)

String(value) == Token("STRING", value)

Kinds ==
    {"var", "var_null", "var_multi", "assign", "assign_item", "assign_list",
     "assign_dict", "assign_slice", "assign_new", "assign_logic", "compound",
     "call", "method", "raise", "assert", "assert_msg", "try", "break",
     "continue", "return_value", "return"}

Contexts ==
    {"top", "func", "while", "method", "if", "else", "for", "foreach"}

Follows == {"end", "statement"}

\* The two ways to write the text: the statement alone, and followed by `;`
Variants == {"plain", "semicolon"}

\* x = <expression> for expressions of two or three operators over the
\* operands a, b, c, d, which are names, numbers or postfix expressions
ExpressionKinds ==
    {"sum_product", "product_sum", "compare_and", "minus_plus", "not_and",
     "or_or", "and_and", "eq_ne", "lt_ge", "sub_add", "div_mul", "or_and",
     "eq_lt", "lt_add"}

OperandSets == {"names", "numbers", "postfix"}

\* The tokens of the k-th operand and the node parse_postfix_expression
\* makes of them
OperandsOf(operands) ==
    CASE operands = "names" ->
            [k \in 1..4 |->
               [tokens |-> <<Name(<<"a", "b", "c", "d">>[k])>>,
                node |-> Identifier(<<"a", "b", "c", "d">>[k])]]
      [] operands = "numbers" ->
            [k \in 1..4 |->
               [tokens |-> <<Integer(k)>>, node |-> IntLiteral(k)]]
      [] operands = "postfix" ->
            << [tokens |-> <<Name("f"), Keyword("LPAREN"), Integer(1),   \* f(1)
                             Keyword("RPAREN")>>,
                node |-> FunctionCall("f", <<IntLiteral(1)>>)],
               [tokens |-> <<Name("o"), Keyword("DOT"), Name("m")>>,     \* o.m
                node |-> MemberAccess(Identifier("o"), "m")],
               [tokens |-> <<Name("a"), Keyword("LBRACKET"), Integer(0), \* a[0]
                             Keyword("RBRACKET")>>,
                node |-> IndexAccess(Identifier("a"), IntLiteral(0))],
               [tokens |-> <<String("s")>>, node |-> StringLiteral("s")] >>

\* The operators of an expression kind, between (or before) its operands
ExpressionTokens(kind, operands) ==
    LET a == OperandsOf(operands)[1].tokens
        b == OperandsOf(operands)[2].tokens
        c == OperandsOf(operands)[3].tokens
        d == OperandsOf(operands)[4].tokens
        K(type) == <<Keyword(type)>>
    IN  <<Name("x"), Keyword("ASSIGN")>> \o
        CASE kind = "sum_product" -> a \o K("PLUS") \o b \o K("MULTIPLY") \o c
          [] kind = "product_sum" -> a \o K("MULTIPLY") \o b \o K("PLUS") \o c
          [] kind = "compare_and" ->
                a \o K("LT") \o b \o K("AND") \o c \o K("LT") \o d
          [] kind = "minus_plus" -> K("MINUS") \o a \o K("PLUS") \o b
          [] kind = "not_and" -> K("NOT") \o a \o K("AND") \o b
          [] kind = "or_or" -> a \o K("OR") \o b \o K("OR") \o c
          [] kind = "and_and" -> a \o K("AND") \o b \o K("AND") \o c
          [] kind = "eq_ne" -> a \o K("EQ") \o b \o K("NE") \o c
          [] kind = "lt_ge" -> a \o K("LT") \o b \o K("GE") \o c
          [] kind = "sub_add" -> a \o K("MINUS") \o b \o K("PLUS") \o c
          [] kind = "div_mul" -> a \o K("DIVIDE") \o b \o K("MULTIPLY") \o c
          [] kind = "or_and" -> a \o K("OR") \o b \o K("AND") \o c
          [] kind = "eq_lt" -> a \o K("EQ") \o b \o K("LT") \o c
          [] kind = "lt_add" -> a \o K("LT") \o b \o K("PLUS") \o c

\* t op= e: the targets, the operators and the right-hand sides
Targets == {"name", "index", "key", "member"}

AssignOperators == {"+", "-", "*", "/"}

AssignValues == {"int", "zero", "name", "sum", "call"}

Target(target) ==
    CASE target = "name" ->                                          \* x
            [tokens |-> <<Name("x")>>, node |-> Identifier("x")]
      [] target = "index" ->                                         \* a[1]
            [tokens |-> <<Name("a"), Keyword("LBRACKET"), Integer(1),
                          Keyword("RBRACKET")>>,
             node |-> IndexAccess(Identifier("a"), IntLiteral(1))]
      [] target = "key" ->                                           \* d["k"]
            [tokens |-> <<Name("d"), Keyword("LBRACKET"), String("k"),
                          Keyword("RBRACKET")>>,
             node |-> IndexAccess(Identifier("d"), StringLiteral("k"))]
      [] target = "member" ->                                        \* o.v
            [tokens |-> <<Name("o"), Keyword("DOT"), Name("v")>>,
             node |-> MemberAccess(Identifier("o"), "v")]

AssignValue(value) ==
    CASE value = "int" ->
            [tokens |-> <<Integer(2)>>, node |-> IntLiteral(2)]
      [] value = "zero" ->
            [tokens |-> <<Integer(0)>>, node |-> IntLiteral(0)]
      [] value = "name" ->
            [tokens |-> <<Name("y")>>, node |-> Identifier("y")]
      [] value = "sum" ->                                            \* 1 + y
            [tokens |-> <<Integer(1), Keyword("PLUS"), Name("y")>>,
             node |-> BinaryOp(IntLiteral(1), "+", Identifier("y"))]
      [] value = "call" ->                                           \* f()
            [tokens |-> <<Name("f"), Keyword("LPAREN"), Keyword("RPAREN")>>,
             node |-> FunctionCall("f", <<>>)]

AssignToken(op) ==
    CASE op = "+" -> Keyword("PLUS_ASSIGN")
      [] op = "-" -> Keyword("MINUS_ASSIGN")
      [] op = "*" -> Keyword("MULTIPLY_ASSIGN")
      [] op = "/" -> Keyword("DIVIDE_ASSIGN")

OperatorToken(op) ==
    CASE op = "+" -> Keyword("PLUS")
      [] op = "-" -> Keyword("MINUS")
      [] op = "*" -> Keyword("MULTIPLY")
      [] op = "/" -> Keyword("DIVIDE")

\* t op= e
CompoundTokens(text) ==
    Target(text.operands).tokens \o <<AssignToken(text.op)>>
    \o AssignValue(text.value).tokens

\* t = t op (e)
ExpandedTokens(text) ==
    Target(text.operands).tokens \o <<Keyword("ASSIGN")>>
    \o Target(text.operands).tokens \o <<OperatorToken(text.op)>>
    \o <<Keyword("LPAREN")>> \o AssignValue(text.value).tokens
    \o <<Keyword("RPAREN"), Keyword("EOF")>>

\* dropped: how many tokens the text lacks at its end (0 in a whole text)
NoText ==
    [kind |-> "", context |-> "", follow |-> "", operands |-> "", op |-> "",
     value |-> "", dropped |-> 0]

Written ==
    [kind : Kinds, context : Contexts, follow : Follows, operands : {""},
     op : {""}, value : {""}, dropped : {0}]
    \cup [kind : ExpressionKinds, context : {"top"}, follow : {"end"},
          operands : OperandSets, op : {""}, value : {""}, dropped : {0}]
    \cup [kind : {"op_assign"}, context : {"top"}, follow : {"end"},
          operands : Targets, op : AssignOperators, value : AssignValues,
          dropped : {0}]

StatementTokens(kind) ==
    CASE kind = "var" ->                                   \* var x = 1
            <<Keyword("VAR"), Name("x"), Keyword("ASSIGN"), Integer(1)>>
      [] kind = "var_null" -> <<Keyword("VAR"), Name("x")>>           \* var x
      [] kind = "var_multi" ->                             \* var x, y = 2
            <<Keyword("VAR"), Name("x"), Keyword("COMMA"), Name("y"),
              Keyword("ASSIGN"), Integer(2)>>
      [] kind = "assign" ->                                \* x = 1 + 2
            <<Name("x"), Keyword("ASSIGN"), Integer(1), Keyword("PLUS"),
              Integer(2)>>
      [] kind = "assign_item" ->                           \* a[0] = 1
            <<Name("a"), Keyword("LBRACKET"), Integer(0), Keyword("RBRACKET"),
              Keyword("ASSIGN"), Integer(1)>>
      [] kind = "assign_list" ->                           \* x = [1, -y]
            <<Name("x"), Keyword("ASSIGN"), Keyword("LBRACKET"), Integer(1),
              Keyword("COMMA"), Keyword("MINUS"), Name("y"),
              Keyword("RBRACKET")>>
      [] kind = "assign_dict" ->                           \* x = {"k": not z}
            <<Name("x"), Keyword("ASSIGN"), Keyword("LBRACE"), String("k"),
              Keyword("COLON"), Keyword("NOT"), Name("z"), Keyword("RBRACE")>>
      [] kind = "assign_slice" ->                          \* x = a[0:1]
            <<Name("x"), Keyword("ASSIGN"), Name("a"), Keyword("LBRACKET"),
              Integer(0), Keyword("COLON"), Integer(1), Keyword("RBRACKET")>>
      [] kind = "assign_new" ->                            \* o.v = new C(2).n
            <<Name("o"), Keyword("DOT"), Name("v"), Keyword("ASSIGN"),
              Keyword("NEW"), Name("C"), Keyword("LPAREN"), Integer(2),
              Keyword("RPAREN"), Keyword("DOT"), Name("n")>>
      [] kind = "assign_logic" ->                  \* x = a <= b or c == (d % 3)
            <<Name("x"), Keyword("ASSIGN"), Name("a"), Keyword("LE"), Name("b"),
              Keyword("OR"), Name("c"), Keyword("EQ"), Keyword("LPAREN"),
              Name("d"), Keyword("MODULO"), Integer(3), Keyword("RPAREN")>>
      [] kind = "compound" ->                              \* x += 1
            <<Name("x"), Keyword("PLUS_ASSIGN"), Integer(1)>>
      [] kind = "call" ->                                  \* f(1, x)
            <<Name("f"), Keyword("LPAREN"), Integer(1), Keyword("COMMA"),
              Name("x"), Keyword("RPAREN")>>
      [] kind = "method" ->                                \* o.m()
            <<Name("o"), Keyword("DOT"), Name("m"), Keyword("LPAREN"),
              Keyword("RPAREN")>>
      [] kind = "raise" -> <<Keyword("RAISE"), String("e")>>          \* raise "e"
      [] kind = "assert" ->                                \* assert(x == 1)
            <<Keyword("ASSERT"), Keyword("LPAREN"), Name("x"), Keyword("EQ"),
              Integer(1), Keyword("RPAREN")>>
      [] kind = "assert_msg" ->                            \* assert(x, "m")
            <<Keyword("ASSERT"), Keyword("LPAREN"), Name("x"), Keyword("COMMA"),
              String("m"), Keyword("RPAREN")>>
      [] kind = "try" ->                       \* try { x = 1 } catch e { raise e }
            <<Keyword("TRY"), Keyword("LBRACE"), Name("x"), Keyword("ASSIGN"),
              Integer(1), Keyword("RBRACE"), Keyword("CATCH"), Name("e"),
              Keyword("LBRACE"), Keyword("RAISE"), Name("e"), Keyword("RBRACE")>>
      [] kind = "break" -> <<Keyword("BREAK")>>
      [] kind = "continue" -> <<Keyword("CONTINUE")>>
      [] kind = "return_value" ->                          \* return x * 2
            <<Keyword("RETURN"), Name("x"), Keyword("MULTIPLY"), Integer(2)>>
      [] kind = "return" -> <<Keyword("RETURN")>>

\* What is written before and after the statement
Opening(context) ==
    CASE context = "top" -> <<>>
      [] context = "func" ->                               \* fun f() {
            <<Keyword("FUN"), Name("f"), Keyword("LPAREN"), Keyword("RPAREN"),
              Keyword("LBRACE")>>
      [] context = "while" ->                              \* while (true) {
            <<Keyword("WHILE"), Keyword("LPAREN"), Keyword("TRUE"),
              Keyword("RPAREN"), Keyword("LBRACE")>>
      [] context = "method" ->            \* class C { var v; var w = 1 fun m(p, q) {
            <<Keyword("CLASS"), Name("C"), Keyword("LBRACE"), Keyword("VAR"),
              Name("v"), Keyword("SEMICOLON"), Keyword("VAR"), Name("w"),
              Keyword("ASSIGN"), Integer(1), Keyword("FUN"),
              Name("m"), Keyword("LPAREN"), Name("p"), Keyword("COMMA"),
              Name("q"), Keyword("RPAREN"), Keyword("LBRACE")>>
      [] context = "if" ->                                 \* if (x) {
            <<Keyword("IF"), Keyword("LPAREN"), Name("x"), Keyword("RPAREN"),
              Keyword("LBRACE")>>
      [] context = "else" ->                \* if (x) { } else if (y) { } else {
            <<Keyword("IF"), Keyword("LPAREN"), Name("x"), Keyword("RPAREN"),
              Keyword("LBRACE"), Keyword("RBRACE"), Keyword("ELSE"),
              Keyword("IF"), Keyword("LPAREN"), Name("y"), Keyword("RPAREN"),
              Keyword("LBRACE"), Keyword("RBRACE"), Keyword("ELSE"),
              Keyword("LBRACE")>>
      [] context = "for" ->                                \* for (i = 0 .. 2) {
            <<Keyword("FOR"), Keyword("LPAREN"), Name("i"), Keyword("ASSIGN"),
              Integer(0), Keyword("DOTDOT"), Integer(2), Keyword("RPAREN"),
              Keyword("LBRACE")>>
      [] context = "foreach" ->                            \* for (k => v in a) {
            <<Keyword("FOR"), Keyword("LPAREN"), Name("k"), Keyword("ARROW"),
              Name("v"), Keyword("IN"), Name("a"), Keyword("RPAREN"),
              Keyword("LBRACE")>>

Closing(context) ==
    CASE context = "top" -> <<>>
      [] context \in {"func", "while", "if", "else", "for", "foreach"} ->
            <<Keyword("RBRACE")>>
      [] context = "method" -> <<Keyword("RBRACE"), Keyword("RBRACE")>>

\* The statement that follows: y = 0
Following(follow) ==
    IF follow = "statement"
    THEN <<Name("y"), Keyword("ASSIGN"), Integer(0)>>
    ELSE <<>>

\* The tokens of the whole text, before EOF
Body(text, variant) ==
    Opening(text.context)
    \o (IF text.kind \in ExpressionKinds
        THEN ExpressionTokens(text.kind, text.operands)
        ELSE IF text.kind = "op_assign" THEN CompoundTokens(text)
        ELSE StatementTokens(text.kind))
    \o (IF variant = "semicolon" THEN <<Keyword("SEMICOLON")>> ELSE <<>>)
    \o Following(text.follow) \o Closing(text.context)

\* The texts that stop early: a text of Written without its last tokens
Unfinished ==
    UNION {{[text EXCEPT !.dropped = n] : n \in 1..Len(Body(text, "plain"))} :
           text \in Written}

\* Lexer.tokenize: the tokens of the text, EOF last
Tokens(text, variant) ==
    SubSeq(Body(text, variant), 1, Len(Body(text, variant)) - text.dropped)
    \o <<Keyword("EOF")>>

\* Parser.__init__, and the locals of Parser.parse: the statements so far,
\* the message of the exception that ended it, and the Program it returned
Parser(tokens) ==
    [tokens |-> tokens, pos |-> 0, statements |-> <<>>, error |-> "",
     program |-> NoNode]

(***************************************************************************)
(* The read-eval-print loop (main.py, run_repl).  Lexer and Parser turn    *)
(* the line into the Program that the interpreter is given; here the line  *)
(* is given as that Program.                                               *)
(***************************************************************************)
\* setup_builtins: the global environment's host callables (those that
\* the model's programs use)
Builtins == [println |-> BuiltinV("println"), len |-> BuiltinV("len")]

\* Interpreter.__init__
Init ==
    /\ envs = <<[parent |-> 0, variables |-> Builtins]>>
    /\ current_env = 1
    /\ this_stack = <<>>
    /\ heap = <<>>
    /\ out = <<>>
    /\ log = <<>>
    /\ last = [line |-> [s |-> "", c |-> "", w |-> "", x |-> ""],
               exc |-> "none", msg |-> ""]
    /\ nlines = 0
    /\ running = TRUE
    /\ family \in Families
    /\ written = NoText
    /\ parsers = [v \in Variants |-> Parser(<<Token("EOF", "")>>)]
    /\ lexer = Lexer(<<>>, <<>>)

\* The interpreter as the evaluator sees it when a line starts.
Interpreter ==
    [envs |-> envs, current_env |-> current_env, this_stack |-> this_stack,
     heap |-> heap, out |-> <<>>, log |-> <<>>, exc |-> "none", val |-> NoneV,
     msg |-> "", vals |-> <<>>]

Run(line) == interpret(Interpreter, Program(Source(line)))

Becomes(line, R) ==
    /\ envs' = R.envs
    /\ current_env' = R.current_env
    /\ this_stack' = R.this_stack
    /\ heap' = R.heap
    /\ out' = R.out
    /\ log' = R.log
    /\ last' = [line |-> line, exc |-> R.exc, msg |-> R.msg]
    /\ nlines' = nlines + 1
    /\ UNCHANGED <<running, family, parsers, written, lexer>>

InFamily(line) == [s |-> line.s, c |-> line.c, w |-> line.w] = family

\* run_repl: a line is read, tokenized, parsed and interpreted
ReplLine ==
    /\ running /\ nlines < MaxLines
    /\ \E line \in Lines :
         /\ InFamily(line)
         /\ ~Raised(Run(line))
         /\ Becomes(line, Run(line))

\* run_repl: `except Exception as e: print(f"Error: {e}")`
ReplError ==
    /\ running /\ nlines < MaxLines
    /\ \E line \in Lines :
         /\ InFamily(line)
         /\ Raised(Run(line))
         /\ Becomes(line, Run(line))

\* run_repl: `if line.strip() == 'exit': break`
ReplExit ==
    /\ running
    /\ running' = FALSE
    /\ UNCHANGED <<envs, current_env, this_stack, heap, out, log, last, nlines,
                   family, parsers, written, lexer>>

Next == ReplLine \/ ReplError \/ ReplExit

Spec == Init /\ [][Next]_vars

(***************************************************************************)
(* The parser on its own: main.py gives Parser(tokens).parse() the tokens  *)
(* of a text; a step is one turn of the loop of Parser.parse.              *)
(***************************************************************************)
ParserInit ==
    /\ envs = <<[parent |-> 0, variables |-> Builtins]>>
    /\ current_env = 1
    /\ this_stack = <<>>
    /\ heap = <<>>
    /\ out = <<>>
    /\ log = <<>>
    /\ last = [line |-> [s |-> "", c |-> "", w |-> "", x |-> ""],
               exc |-> "none", msg |-> ""]
    /\ nlines = 0
    /\ running = FALSE
    /\ family = [s |-> "", c |-> "", w |-> ""]
    /\ written \in Written \cup Unfinished
    /\ parsers = [v \in Variants |-> Parser(Tokens(written, v))]
    /\ lexer = Lexer(<<>>, <<>>)

Parsing(v) == parsers[v].error = "" /\ parsers[v].program = NoNode

\* Parser.parse: `stmt = self.parse_statement(); if stmt:
\* statements.append(stmt)`, or the exception that ends the parse
ParseStatement ==
    \E v \in Variants :
        LET p == parsers[v]
            stmt == parse_statement(p.tokens, p.pos)
        IN  /\ Parsing(v)
            /\ current_token(p.tokens, p.pos).type # "EOF"
            /\ parsers' =
                  [parsers EXCEPT ![v] =
                     IF stmt.error # ""
                     THEN [p EXCEPT !.pos = stmt.pos, !.error = stmt.error]
                     ELSE [p EXCEPT !.pos = stmt.pos,
                                    !.statements = Append(@, stmt.node)]]
            /\ UNCHANGED <<envs, current_env, this_stack, heap, out, log, last,
                           nlines, running, family, written, lexer>>

\* Parser.parse: `return Program(statements)` at EOF
ParseReturn ==
    \E v \in Variants :
        LET p == parsers[v]
        IN  /\ Parsing(v)
            /\ current_token(p.tokens, p.pos).type = "EOF"
            /\ parsers' = [parsers EXCEPT ![v].program = Program(p.statements)]
            /\ UNCHANGED <<envs, current_env, this_stack, heap, out, log, last,
                           nlines, running, family, written, lexer>>

ParserNext == ParseStatement \/ ParseReturn

ParserSpec == ParserInit /\ [][ParserNext]_vars

(***************************************************************************)
(* Lexer.tokenize as a state machine: a source of at most MaxPieces pieces *)
(* without a mapping, or lines of names with a sorted include mapping.     *)
(***************************************************************************)
Pieces ==
    {<<"1">>, <<"5">>, <<".">>, <<".", ".">>, <<"a">>, <<"o", "r">>,
     <<"\"">>, <<"\"", "\"", "\"">>, <<"\\">>, <<"\n">>, <<" ">>, <<"#">>,
     <<"@">>, <<"=">>, <<"+">>}

RECURSIVE Concatenations(_, _)
Concatenations(pieces, n) ==
    IF n = 0 THEN {<<>>}
    ELSE {<<>>} \cup {p \o rest : p \in pieces,
                                  rest \in Concatenations(pieces, n - 1)}

Sources == Concatenations(Pieces, MaxPieces)

LineSources == Concatenations({<<"a">>, <<"\n">>}, MaxPieces + 1)

Entries == {<<start, fname, fline>> :
               start \in 1..3, fname \in {"m", "i"}, fline \in {1, 4}}

Sorted(mapping) ==
    \A i \in 1..Len(mapping) - 1 : mapping[i][1] <= mapping[i + 1][1]

Mappings ==
    {mapping \in {<<>>} \cup {<<e>> : e \in Entries}
                 \cup {<<e, f>> : e \in Entries, f \in Entries} :
        Sorted(mapping)}

LexerInit ==
    /\ envs = <<[parent |-> 0, variables |-> Builtins]>>
    /\ current_env = 1
    /\ this_stack = <<>>
    /\ heap = <<>>
    /\ out = <<>>
    /\ log = <<>>
    /\ last = [line |-> [s |-> "", c |-> "", w |-> "", x |-> ""],
               exc |-> "none", msg |-> ""]
    /\ nlines = 0
    /\ running = FALSE
    /\ family = [s |-> "", c |-> "", w |-> ""]
    /\ written = NoText
    /\ parsers = [v \in Variants |-> Parser(<<Token("EOF", "")>>)]
    /\ \/ \E source \in Sources : lexer = Lexer(source, <<>>)
       \/ \E source \in LineSources, mapping \in Mappings :
              lexer = Lexer(source, mapping)

Tokenizing == lexer.exc = "" /\ ~lexer.returned

\* tokenize: one turn of `while self.pos < len(self.source)`
TokenizeTurn ==
    /\ Tokenizing
    /\ lexer.pos < Len(lexer.source)
    /\ lexer' = tokenize_turn(lexer)
    /\ UNCHANGED <<envs, current_env, this_stack, heap, out, log, last, nlines,
                   running, family, parsers, written>>

\* tokenize: the statements after the loop
TokenizeReturn ==
    /\ Tokenizing
    /\ lexer.pos >= Len(lexer.source)
    /\ lexer' = tokenize_return(lexer)
    /\ UNCHANGED <<envs, current_env, this_stack, heap, out, log, last, nlines,
                   running, family, parsers, written>>

LexerNext == TokenizeTurn \/ TokenizeReturn

LexerSpec == LexerInit /\ [][LexerNext]_vars


(***************************************************************************)
(* Properties.  They are stated over the last line's output (out), its     *)
(* outcome (last) and the events it logged (log).                          *)
(***************************************************************************)
Events(kind) == {i \in 1..Len(log) : log[i].ev = kind}

Line(s, c, w, x) == last.line = [s |-> s, c |-> c, w |-> w, x |-> x]

\* C1: every construct that enters a new frame (if/else branch, while
\* iteration, foreach iteration, catch-block, function call, method call,
\* class instantiation) leaves, however it finishes, the current
\* environment that was current when it started.
C1_FrameRestored ==
    \A i \in Events("frame") : log[i].exit = log[i].entry

\* The binding of a name is the same in two views of the visible bindings.
SameBinding(before, after, name) ==
    IF name \in DOMAIN before
    THEN name \in DOMAIN after /\ after[name] = before[name]
    ELSE name \notin DOMAIN after

\* C2: a variable declared with var inside a block (if/else branch, while
\* body, foreach body, try-block, catch-block) is not bound in the enclosing
\* environment after the block, and a shadowed outer binding is unchanged.
\* t is the name that the programs declare inside blocks and never assign.
C2_BlockScoped ==
    /\ \A i \in Events("frame") :
          log[i].c \in {"block", "foreach", "catch"}
          => SameBinding(log[i].before, log[i].after, "t")
    /\ \A i \in Events("try") : SameBinding(log[i].before, log[i].after, "t")

\* C3: every language-level error raised in a try-block (a host Exception
\* of the interpreter as well as raise and a failed assert) is caught, and
\* the catch variable is bound to its message.
C3_ErrorsCaught ==
    \A i \in Events("try") :
        log[i].raised \in {"Exception", "TinyException"}
        => log[i].caught /\ log[i].bound = StrV(log[i].msg)

\* C4: a return, break or continue executed in a try-block is not caught:
\* the catch-block does not run and the signal leaves the try statement
\* unchanged, to end the enclosing call (value 7) or act on the enclosing
\* loop (iterations 0 and 1).
C4_SignalsPassTry ==
    /\ \A i \in Events("try") :
          log[i].raised \in {"Return", "Break", "Continue"}
          => /\ ~log[i].caught
             /\ log[i].leaves = log[i].raised
             /\ log[i].result = log[i].carried
    /\ (last.line.s = "frame" /\ last.line.c = "try") =>
          /\ (last.line.w \in {"func", "method"} /\ last.line.x = "return")
             => last.exc = "none" /\ out = <<"7", "after">>
          /\ (last.line.w = "loop" /\ last.line.x = "break")
             => last.exc = "none" /\ out = <<"0", "after">>
          /\ (last.line.w = "loop" /\ last.line.x = "continue")
             => last.exc = "none" /\ out = <<"0", "1", "after">>

C4_Witness ==
    /\ Line("frame", "try", "func", "return")
    /\ \E i \in Events("try") : log[i].raised = "Return"
    /\ out = <<"7", "after">>

\* C5: a return at any block nesting depth of a function or method body
\* ends exactly that invocation: the call yields the returned value (None
\* without a value or on fall-through), no later statement of the body runs
\* ("dead"), and the caller goes on after the call ("live") to its own end.
C5_ReturnEndsOneCall ==
    /\ \A i \in Events("frame") :
          log[i].c \in {"call", "method"}
          => /\ log[i].how = "Return"
                => log[i].leaves = "none" /\ log[i].result = log[i].returned
             /\ log[i].how = "none"
                => log[i].leaves = "none" /\ log[i].result = NoneV
    /\ last.line.s = "return" =>
          /\ last.exc = "none"
          /\ \A k \in 1..Len(out) : out[k] # "dead"
          /\ Len(out) >= 4
          /\ SubSeq(out, Len(out) - 3, Len(out))
               = <<IF last.line.x = "value" THEN "7" ELSE "None",
                   "live", "8", "top">>
          /\ last.line.x # "fall" => Len(out) = 4

C5_Witness ==
    /\ Line("return", "if_while", "func", "value")
    /\ \E i \in Events("frame") : log[i].c = "call" /\ log[i].how = "Return"
                                  /\ log[i].result = IntV(7)
    /\ out = <<"7", "live", "8", "top">>

\* C6: in nested loops break ends only the innermost loop and continue
\* only skips the rest of its current iteration; the outer loop goes on
\* with the statement after the inner loop and its remaining iterations.
C6_InnermostLoop ==
    last.line.s = "loops" =>
        /\ last.exc = "none"
        /\ out = CASE last.line.x = "break" ->
                        <<"11", "1", "21", "2", "done">>
                   [] last.line.x = "continue" ->
                        <<"11", "13", "1", "21", "23", "2", "done">>
                   [] last.line.x = "none" ->
                        <<"11", "two", "12", "13", "1",
                          "21", "two", "22", "23", "2", "done">>

C6_Witness ==
    /\ Line("loops", "foreach", "while", "break")
    /\ out = <<"11", "1", "21", "2", "done">>

\* C7: the frame of a call to a user function has the environment of the
\* function's definition as its parent, not the caller's: free names
\* resolve through the defining chain with their values at call time, and
\* the caller's local bindings are not visible to the body.
C7_LexicalClosure ==
    /\ \A i \in Events("frame") :
          log[i].c = "call"
          => /\ log[i].parent = heap[log[i].fn].env
             /\ \A j \in Events("def") :
                   log[j].fn = log[i].fn => log[i].parent = log[j].env
    /\ last.line.s = "closure" =>
          CASE last.line.x = "rebind" -> last.exc = "none" /\ out = <<"2">>
            [] last.line.x = "caller_local" ->
                  /\ last.exc = "Exception"
                  /\ last.msg = "Undefined variable: y"
                  /\ out = <<>>
            [] last.line.x = "caller_shadow" ->
                  last.exc = "none" /\ out = <<"1">>
            [] last.line.x = "counter" ->
                  last.exc = "none" /\ out = <<"11", "12">>
            [] last.line.x = "block_def" ->
                  last.exc = "none" /\ out = <<"2", "1">>
            [] last.line.x = "param" ->
                  /\ last.exc = "Exception"
                  /\ last.msg = "Undefined variable: p"
                  /\ out = <<>>

C7_Witness ==
    /\ Line("closure", "", "", "rebind")
    /\ \E i \in Events("frame") : log[i].c = "call" /\ log[i].result = IntV(2)
    /\ out = <<"2">>

\* The receiver on top of the stack at a member access is an instance of
\* the class of the target.
SameClassReceiver(event) ==
    /\ Len(event.stack) > 0
    /\ heap[Top(event.stack)].class_value = heap[event.target].class_value

\* C8: a member or method whose name begins with _ is read, written or
\* called successfully only while the receiver of the executing method is
\* an instance of the target's class; from top-level code or a method of
\* another class the access fails and the target's fields are unchanged.
C8_PrivateMembers ==
    /\ \A i \in Events("member") :
          (is_private_name(log[i].name) /\ ~SameClassReceiver(log[i]))
          => ~log[i].ok /\ log[i].after = log[i].before
    /\ last.line.s = "private" =>
          IF last.line.x \in {"read_top", "write_top", "call_top", "read_diff",
                              "write_diff", "call_diff", "via", "free_top",
                              "redefine"}
          THEN /\ last.exc = "Exception"
               /\ last.msg \in {"Cannot access private member '_v' of class C",
                                "Cannot access private method '_m' of class C"}
               /\ out = <<>>
          ELSE /\ last.exc = "none"
               /\ out = CASE last.line.x \in {"read_self", "read_same", "bound",
                                              "free_in_method"} -> <<"1">>
                          [] last.line.x = "write_same" -> <<"9">>
                          [] last.line.x = "call_same" -> <<"3">>
                          [] last.line.x = "public" -> <<"3">>

C8_Witness ==
    /\ Line("private", "", "", "write_diff")
    /\ \E i \in Events("member") :
          /\ log[i].op = "set" /\ log[i].name = "_v"
          /\ Len(log[i].stack) > 0
          /\ ~log[i].ok
          /\ log[i].after = log[i].before
    /\ last.exc = "Exception"

\* C9: `a and b` evaluates b only when a is truthy, `a or b` only when a is
\* falsy, so that otherwise b's side effect ("side") and b's error do not
\* occur; the result is the boolean conjunction / disjunction of the
\* operands' truthiness.
C9_ShortCircuit ==
    last.line.s = "logic" =>
        /\ last.exc = "none"
        /\ out = CASE last.line.x = "and_false" -> <<"False">>
                   [] last.line.x = "and_true" -> <<"side", "True">>
                   [] last.line.x = "or_true" -> <<"True">>
                   [] last.line.x = "or_false" -> <<"side", "True">>
                   [] last.line.x = "and_error" -> <<"False">>
                   [] last.line.x = "or_error" -> <<"True">>
                   [] last.line.x = "and_values" -> <<"True", "False">>
                   [] last.line.x = "or_values" -> <<"False", "True">>

\* The frames from frame e to the root.
RECURSIVE Chain(_, _)
Chain(E, e) ==
    IF E[e].parent = 0 THEN <<e>> ELSE <<e>> \o Chain(E, E[e].parent)

\* C10: Environment.set(name, v) changes exactly one binding, that of name
\* in the nearest frame from the current one to the root that binds it,
\* and nothing else; when no frame binds name it fails with an undefined
\* variable error and creates no binding.
C10_SetNearestBinding ==
    /\ \A i \in Events("set") :
          LET chain == Chain(log[i].before, log[i].env)
              binders == {k \in 1..Len(chain) :
                            log[i].name \in DOMAIN log[i].before[chain[k]].variables}
          IN  IF binders = {}
              THEN ~log[i].ok /\ log[i].after = log[i].before
              ELSE LET nearest == chain[CHOOSE k \in binders :
                                          \A j \in binders : k <= j]
                   IN  /\ log[i].ok
                       /\ log[i].after =
                            [log[i].before EXCEPT
                               ![nearest].variables[log[i].name] = log[i].value]
    /\ last.line.s = "assign" =>
          CASE last.line.x \in {"current", "parent", "global"} ->
                  last.exc = "none" /\ out = <<"2">>
            [] last.line.x = "shadow" -> last.exc = "none" /\ out = <<"6", "1">>
            [] last.line.x = "deep" -> last.exc = "none" /\ out = <<"5", "4", "1">>
            [] last.line.x \in {"missing", "missing_in_func"} ->
                  /\ last.exc = "Exception"
                  /\ last.msg = "Undefined variable: zz"
                  /\ \A e \in 1..Len(envs) : "zz" \notin DOMAIN envs[e].variables
            [] last.line.x = "caller_local" ->
                  /\ last.exc = "Exception"
                  /\ last.msg = "Undefined variable: q"
                  /\ out = <<>>

C10_Witness ==
    /\ Line("assign", "", "", "deep")
    /\ \E i \in Events("set") :
          /\ log[i].ok /\ log[i].name = "b"
          /\ "b" \notin DOMAIN log[i].before[log[i].env].variables
          /\ log[i].after # log[i].before
    /\ out = <<"5", "4", "1">>

\* C11: the assignment arr[i] = v on an array of length n fails, leaving
\* the array unchanged, whenever i is negative, i >= n, or i is not an
\* integer; for 0 <= i < n it replaces element i and no other element.
\* (Stated for the indices that are integers, strings or null; a boolean
\* index, which the host takes for the integer 0 or 1, is left aside.)
C11_IndexAssignment ==
    \A i \in Events("item") :
        LET e == log[i]
        IN  e.of = "list" /\ e.index.t # "bool" =>
              IF e.index.t = "int" /\ 0 <= e.index.n /\ e.index.n < Len(e.before)
              THEN e.ok /\ e.after = [e.before EXCEPT ![e.index.n + 1] = e.value]
              ELSE ~e.ok /\ e.after = e.before

\* The iterations of the range loops of the latest line, in order
RangeRuns == SelectSeq(log, LAMBDA e : e.ev = "frame" /\ e.c = "range")

\* start, start + 1, ..., end - 1
Interval(a, b) == [k \in 1..(IF b > a THEN b - a ELSE 0) |-> a + k - 1]

RECURSIVE Texts(_)
Texts(numbers) ==
    IF Len(numbers) = 0 THEN <<>>
    ELSE <<ToString(Head(numbers))>> \o Texts(Tail(numbers))

\* C12: the range loop for (i = start .. end) runs its body exactly
\* max(0, end - start) times with i bound, in a fresh frame per iteration,
\* to start, start + 1, ..., end - 1 in that order; when start >= end the
\* body is never entered.
C12_RangeLoop ==
    last.line.s = "range" /\ last.line.w \in {"print", "continue"} =>
        LET values == Interval(Number(last.line.c), Number(last.line.x))
            printed == IF last.line.w = "print" THEN values
                       ELSE SelectSeq(values, LAMBDA v : v % 2 = 1)
        IN  /\ last.exc = "none"
            /\ Len(RangeRuns) = Len(values)
            /\ \A k \in 1..Len(values) :
                  /\ RangeRuns[k].value = values[k]
                  /\ RangeRuns[k].frame > RangeRuns[k].made
                  /\ RangeRuns[k].exit = RangeRuns[k].entry
                  /\ envs[RangeRuns[k].frame] =
                        [parent |-> RangeRuns[k].entry,
                         variables |-> [n \in {"i"} |-> IntV(values[k])]]
                  /\ \A j \in 1..Len(values) :
                        j # k => RangeRuns[j].frame # RangeRuns[k].frame
            /\ out = Texts(printed) \o <<"after">>

C12_Witness ==
    /\ last.line.s = "range" /\ last.line.w = "print"
    /\ Len(RangeRuns) >= 2
    /\ out = <<"0", "1", "after">>

\* What `x in c` is said to be: element equality for arrays, substring for
\* strings, key membership for dicts; a failure for a left operand that is
\* no string on a dict or string.
Contains(c, x) ==
    CASE c = "array" -> IF x \in {"1", "a", "ab"} THEN "True" ELSE "False"
      [] c = "string" ->
            IF x \in {"1", "2", "null"} THEN "fails"
            ELSE IF x \in {"a", "b", "ab", ""} THEN "True" ELSE "False"
      [] c = "dict" ->
            IF x \in {"1", "2", "null"} THEN "fails"
            ELSE IF x \in {"a", "ab"} THEN "True" ELSE "False"

Outcome == IF last.exc # "none" THEN "fails" ELSE IF out = <<>> THEN "" ELSE out[1]

C13_InOperator ==
    last.line.s = "member" /\ last.line.w = "in" /\ last.line.c # "number" =>
        Outcome = Contains(last.line.c, last.line.x)

\* C13: `x not_in c` evaluates to the boolean negation of `x in c` for every
\* array, string and dict c on which `in` is defined, where `in` is element
\* equality for arrays, substring for strings and key membership for dicts,
\* and fails exactly when `in` fails (non-string left operand on a dict or
\* string).
C13_NotIn ==
    /\ C13_InOperator
    /\ last.line.s = "member" /\ last.line.w = "not_in"
       /\ last.line.c # "number" =>
          Outcome = CASE Contains(last.line.c, last.line.x) = "True" -> "False"
                      [] Contains(last.line.c, last.line.x) = "False" -> "True"
                      [] OTHER -> "fails"
    /\ \A i \in Events("binop") :
          log[i].op = "not_in" /\ log[i].right.t \in {"list", "dict", "str"} =>
             LET found == eval_binary_op(heap, log[i].left, "in", log[i].right)
             IN  IF found.exc = "none"
                 THEN log[i].ok /\ log[i].val = BoolV(found.val.n = 0)
                 ELSE ~log[i].ok

\* C14: for an array or string of length n and integer indices a and b,
\* obj[a:b] returns the elements at positions a .. min(b, n) - 1 in order,
\* and returns an empty sequence whenever a >= b (for every integer a and b,
\* including negative ones).
C14_Slice ==
    \A i \in Events("slice") :
        LET e == log[i]
            n == Len(e.source)
            a == e.start.n
            b == IF e.end.n < n THEN e.end.n ELSE n
        IN  e.start.t = "int" /\ e.end.t = "int" =>
              /\ a >= e.end.n => e.result = <<>>
              /\ 0 <= a /\ a < e.end.n =>
                    e.result = [k \in 1..(IF b > a THEN b - a ELSE 0) |->
                                   e.source[a + k]]

\* C15: booleans compare by identity, not by numeric equality: a boolean is
\* equal only to the same boolean, so `true == 1` and `false == 0` evaluate
\* to false and `true != 1` to true.
C15_BoolIdentity ==
    \A i \in Events("binop") :
        LET e == log[i]
        IN  e.op \in {"==", "!="} /\ (e.left.t = "bool" \/ e.right.t = "bool") =>
              /\ e.ok
              /\ e.val = BoolV((e.op = "==") <=> (e.left = e.right))

\* C16: for all integers a and b with b != 0, `a / b` evaluates to the
\* integer floor(a / b), rounding toward negative infinity for every sign
\* combination (e.g. -7 / 2 = -4), and for b = 0 both `a / b` and `a % b`
\* fail without producing a value.
C16_FloorDivision ==
    /\ \A i \in Events("binop") :
          LET e == log[i]
              a == e.left.n
              b == e.right.n
              q == e.val.n
          IN  e.op \in {"/", "%"} /\ e.left.t = "int" /\ e.right.t = "int" =>
                /\ b = 0 => ~e.ok
                /\ b > 0 /\ e.op = "/" =>
                      e.ok /\ e.val.t = "int" /\ q * b <= a /\ a < (q + 1) * b
                /\ b < 0 /\ e.op = "/" =>
                      e.ok /\ e.val.t = "int" /\ q * b >= a /\ a > (q + 1) * b
    /\ last.line.s = "divide" =>
          IF last.line.x = "0"
          THEN last.exc = "Exception" /\ out = <<>>
          ELSE last.exc = "none" /\ Len(out) = 1
    /\ Line("divide", "-7", "/", "2") => out = <<"-4">>

C16_Witness ==
    /\ Line("divide", "-7", "/", "2") /\ out = <<"-4">>
    /\ \E i \in Events("binop") : log[i].op = "/" /\ log[i].val = IntV(-4)

\* The iterations of the foreach loops of the latest line, in order
EachRuns == SelectSeq(log, LAMBDA e : e.ev = "frame" /\ e.c = "foreach")

\* The key and the value the k-th iteration is said to see
EachKey(c, k) == IF c = "array" THEN IntV(k - 1) ELSE StrV(EachKeys[k])

EachValue(k) == IntV(10 * k)

RECURSIVE EachPrinted(_, _, _, _)
EachPrinted(c, w, k, n) ==
    IF k > n THEN <<>>
    ELSE <<IF c = "array" THEN ToString(k - 1) ELSE EachKeys[k]>>
         \o (IF w = "print" THEN <<ToString(10 * k)>> ELSE <<>>)
         \o EachPrinted(c, w, k + 1, n)

\* C17: foreach over an array of length n runs the body (absent break)
\* exactly n times with (key, value) = (i, arr[i]) for i = 0 .. n-1 in
\* order, each in a fresh frame; over a dict it runs once per entry with
\* (key, value) in insertion order; over any other value it fails without
\* running the body.
C17_Foreach ==
    last.line.s = "each" =>
        LET c == last.line.c
            n == Number(last.line.x)
        IN  IF c \in Iterated
            THEN /\ last.exc = "none"
                 /\ Len(EachRuns) = n
                 /\ \A k \in 1..n :
                       /\ EachRuns[k].key = EachKey(c, k)
                       /\ EachRuns[k].value = EachValue(k)
                       /\ EachRuns[k].frame > EachRuns[k].made
                       /\ EachRuns[k].exit = EachRuns[k].entry
                       /\ envs[EachRuns[k].frame] =
                             [parent |-> EachRuns[k].entry,
                              variables |->
                                [v \in {"k", "v"} |->
                                   IF v = "k" THEN EachKey(c, k)
                                   ELSE EachValue(k)]]
                       /\ \A j \in 1..n :
                             j # k => EachRuns[j].frame # EachRuns[k].frame
                 /\ out = EachPrinted(c, last.line.w, 1, n) \o <<"after">>
            ELSE /\ last.exc = "Exception"
                 /\ Len(EachRuns) = 0
                 /\ out = <<>>

C17_Witness ==
    /\ last.line.s = "each" /\ last.line.c = "dict" /\ last.line.w = "print"
    /\ Len(EachRuns) = 2
    /\ out = <<"b", "10", "a", "20", "after">>

\* The fields declared in the body of the class of an instance
Declared(instance) ==
    LET members == heap[heap[instance].class_value].members
    IN  {members[k].name : k \in 1..Len(members)}

\* C18: assigning obj.f = v where f is not a field declared in the body of
\* obj's class fails and leaves the instance's field map unchanged (no field
\* is created); assigning a declared field changes that field only.
C18_SetMember ==
    /\ \A i \in Events("member") :
          LET e == log[i]
          IN  e.op = "set" =>
                IF e.name \notin Declared(e.target)
                THEN ~e.ok /\ e.after = e.before
                ELSE /\ DOMAIN e.after = DOMAIN e.before
                     /\ \A g \in DOMAIN e.before \ {e.name} :
                           e.after[g] = e.before[g]
                     /\ e.ok => e.after[e.name] = e.value
                     /\ (~is_private_name(e.name) \/ SameClassReceiver(e))
                        /\ e.name \in DOMAIN e.before => e.ok
    /\ last.line.s = "field" =>
          LET f == last.line.w
              v == last.line.x
          IN  IF f \in {"a", "b"} \/ (f = "_v" /\ last.line.c = "method")
              THEN /\ last.exc = "none"
                   /\ out = <<IF f = "a" THEN v ELSE "1",
                              IF f = "b" THEN v ELSE "2",
                              IF f = "_v" THEN v ELSE "3">>
              ELSE /\ last.exc = "Exception"
                   /\ out = <<>>

C18_Witness ==
    /\ Line("field", "method", "c", "7")
    /\ \E i \in Events("member") :
          /\ log[i].op = "set" /\ log[i].name = "c" /\ ~log[i].ok
          /\ DOMAIN log[i].after = {"a", "b", "_v"}
          /\ log[i].after = log[i].before
    /\ last.msg = "Member 'c' not defined on class F"

\* C19: new C(args) evaluates C's member initializers in declaration order
\* with this/self bound to the new instance, and only then: if C defines
\* init, calls it with args and fails when the argument count differs from
\* init's parameter count; if C defines no init, fails when any argument is
\* supplied and succeeds with none.
C19_New ==
    last.line.s = "new" =>
        LET n == Number(last.line.x)
            succeeds == IF last.line.c = "none" THEN n = 0
                        ELSE n = Number(last.line.c)
            initializers == <<"1", "2", "3">>
            constructor == IF last.line.c = "none" THEN <<>>
                           ELSE <<"init">> \o [k \in 1..n |-> ToString(4 + k)]
        IN  IF succeeds
            THEN /\ last.exc = "none"
                 /\ out = initializers \o constructor \o <<"made">>
            ELSE /\ last.exc = "Exception"
                 /\ out = initializers
                 /\ last.msg =
                       IF last.line.c = "none"
                       THEN "Class N constructor does not take arguments"
                       ELSE "Constructor for N expects " \o last.line.c
                            \o " arguments, got " \o last.line.x

C19_Witness ==
    /\ Line("new", "1", "", "2")
    /\ out = <<"1", "2", "3">>
    /\ last.msg = "Constructor for N expects 1 arguments, got 2"

\* The parse has ended, with a Program or with an exception
Ended(v) == ~Parsing(v)

SameParse ==
    Ended("plain") /\ Ended("semicolon") /\ parsers["plain"].error = "" =>
        /\ parsers["semicolon"].error = ""
        /\ parsers["semicolon"].program = parsers["plain"].program
        /\ parsers["semicolon"].pos = parsers["plain"].pos + 1

\* Every statement kind but the bare return: the text parses, and with a
\* `;` after the statement it parses to the same Program, the `;` consumed.
C20_OtherStatements ==
    written \in Written /\ written.kind # "return" =>
        /\ SameParse
        /\ \A v \in Variants : parsers[v].error = ""

\* C20: for every statement kind that is not block-terminated - var,
\* assignment, expression statement, raise, assert, try/catch, break,
\* continue, and return both with a value and bare - writing the statement
\* followed by `;` parses successfully to the same AST as writing it
\* without the `;`, and the `;` is consumed.
C20_TrailingSemicolon == written \in Written => SameParse

\* How the expression of a kind is said to group
Grouped(kind, operands) ==
    LET a == OperandsOf(operands)[1].node
        b == OperandsOf(operands)[2].node
        c == OperandsOf(operands)[3].node
        d == OperandsOf(operands)[4].node
        Left(o1, o2) == BinaryOp(BinaryOp(a, o1, b), o2, c)
        Right(o1, o2) == BinaryOp(a, o1, BinaryOp(b, o2, c))
    IN  CASE kind = "sum_product" -> Right("+", "*")
          [] kind = "product_sum" -> Left("*", "+")
          [] kind = "compare_and" ->
                BinaryOp(BinaryOp(a, "<", b), "and", BinaryOp(c, "<", d))
          [] kind = "minus_plus" -> BinaryOp(UnaryOp("-", a), "+", b)
          [] kind = "not_and" -> BinaryOp(UnaryOp("not", a), "and", b)
          [] kind = "or_or" -> Left("or", "or")
          [] kind = "and_and" -> Left("and", "and")
          [] kind = "eq_ne" -> Left("==", "!=")
          [] kind = "lt_ge" -> Left("<", ">=")
          [] kind = "sub_add" -> Left("-", "+")
          [] kind = "div_mul" -> Left("/", "*")
          [] kind = "or_and" -> Right("or", "and")
          [] kind = "eq_lt" -> Right("==", "<")
          [] kind = "lt_add" -> Right("<", "+")

\* C21: for any operands a, b, c, d and x, y: `a + b * c` parses as
\* a + (b * c), `a < b and c < d` parses as (a < b) and (c < d), and
\* `-x + y` parses as (-x) + y; binary operators of the same level
\* associate to the left.
C21_Precedence ==
    \A v \in Variants :
        written \in Written /\ written.kind \in ExpressionKinds /\ Ended(v) =>
            /\ parsers[v].error = ""
            /\ parsers[v].program =
                  Program(<<Assignment(Identifier("x"),
                                       Grouped(written.kind, written.operands))>>)

C21_Witness ==
    /\ written \in Written
    /\ written.kind = "sum_product" /\ written.operands = "postfix"
    /\ Ended("plain")
    /\ parsers["plain"].program.statements[1].value.right.operator = "*"

\* The value of the top-level variable g as a line prints it ("" when the
\* name is not bound)
Printed(E, e) ==
    IF get(E, e, "g").ok THEN ToString(get(E, e, "g").val.n) ELSE ""

\* C22 (the parts that hold): bindings made by a line stay visible to the
\* lines after it, also when the line ends in an error, and an error does
\* not end the loop.
C22_BindingsPersist ==
    [][/\ \A name \in DOMAIN Visible(envs, current_env) :
              name \in DOMAIN Visible(envs', current_env')
       /\ ReplError => running'
       /\ (family.s = "repl" /\ nlines' = nlines + 1) =>
             /\ last'.line.x = "read" =>
                  IF Printed(envs, current_env) = ""
                  THEN last'.exc = "Exception" /\ out' = <<>>
                  ELSE last'.exc = "none"
                       /\ out' = <<Printed(envs, current_env)>>
             /\ last'.line.x = "bind_fail" =>
                  last'.exc = "Exception" /\ Printed(envs', current_env') = "3"
             /\ last'.line.x = "call" =>
                  IF get(envs, current_env, "fg").ok
                  THEN out' = <<"5">> ELSE last'.exc = "Exception"]_vars

\* C22: in the REPL one interpreter persists across input lines, and the
\* current environment is the global environment at the start of every
\* line, also after a line that ended in an error.
C22_GlobalAtLineStart == running => current_env = 1

\* The entries of the mapping that start at or before a line
Before(mapping, line) == {k \in 1..Len(mapping) : mapping[k][1] <= line}

Last(S) == CHOOSE k \in S : \A j \in S : j <= k

\* C23: given an include mapping sorted by combined-line-start, every
\* emitted token's reported (file, line) is (f, l + (L - s)) for the last
\* mapping entry (s, f, l) with s <= L, where L is the token's line in the
\* combined buffer; kind, payload and column are unchanged, and with an
\* empty mapping tokens keep file <input> and line L.
C23_MapLine ==
    lexer.returned =>
        /\ Len(lexer.tokens) = Len(lexer.scanned)
        /\ \A i \in 1..Len(lexer.tokens) :
              LET t == lexer.tokens[i]
                  L == lexer.scanned[i].line
                  S == Before(lexer.mapping, L)
              IN  /\ t.type = lexer.scanned[i].type
                  /\ t.value = lexer.scanned[i].value
                  /\ t.column = lexer.scanned[i].column
                  /\ lexer.mapping = <<>> =>
                        t.filename = "<input>" /\ t.line = L
                  /\ S # {} =>
                        /\ t.filename = lexer.mapping[Last(S)][2]
                        /\ t.line = lexer.mapping[Last(S)][3]
                                    + (L - lexer.mapping[Last(S)][1])

C23_Witness ==
    /\ lexer.returned
    /\ Len(lexer.mapping) = 2
    /\ lexer.mapping[1][2] # lexer.mapping[2][2]
    /\ \E i, j \in 1..Len(lexer.tokens) :
          /\ Before(lexer.mapping, lexer.scanned[i].line) = {1}
          /\ Before(lexer.mapping, lexer.scanned[j].line) = {1, 2}
          /\ lexer.tokens[j].line # lexer.scanned[j].line
          /\ lexer.tokens[j].filename = lexer.mapping[2][2]

\* The source starts with n digits and `..`
DigitsDotDot(source, n) ==
    /\ n >= 1 /\ Len(source) >= n + 2
    /\ \A i \in 1..n : isdigit(source[i])
    /\ source[n + 1] = "." /\ source[n + 2] = "."

\* C25: when decimal digits are immediately followed by `..` (as in
\* `1..5`), the lexer emits the INT token for the digits, then a single
\* DOTDOT token, then the following token; the first dot is not absorbed
\* into a FLOAT.
C25_DotDot ==
    \A n \in 1..Len(lexer.source) :
        DigitsDotDot(lexer.source, n) /\ ~Tokenizing =>
            /\ Len(lexer.tokens) >= 2
            /\ lexer.tokens[1].type = "INT"
            /\ lexer.tokens[1].value = int(SubSeq(lexer.source, 1, n), 0)
            /\ lexer.tokens[2].type = "DOTDOT"

\* C25 (the part that holds): a `.` that neither follows a digit nor is
\* followed by another `.` is emitted as DOT, and `..` that does not follow
\* a digit as DOTDOT.
C25_Dot ==
    (lexer.returned /\ \A i \in 1..Len(lexer.source) :
                          lexer.source[i] \in {".", "a", "\n"}) =>
        \A i \in 1..Len(lexer.tokens) :
            LET t == lexer.tokens[i]
                at == CHOOSE p \in 1..Len(lexer.source) + 1 :
                         /\ Len(SelectSeq(SubSeq(lexer.source, 1, p - 1),
                                          LAMBDA c : c = "\n")) = t.line - 1
                         /\ \E q \in 0..p - 1 :
                               /\ q = 0 \/ lexer.source[q] = "\n"
                               /\ \A r \in q + 1..p - 1 : lexer.source[r] # "\n"
                               /\ p - q = t.column
                next == IF at + 1 <= Len(lexer.source)
                        THEN lexer.source[at + 1] ELSE NoChar
            IN  t.type \in {"DOT", "DOTDOT"} =>
                   /\ lexer.source[at] = "."
                   /\ (t.type = "DOTDOT") = (next = ".")

\* C26 (the part that holds): each turn of tokenize's main loop consumes at
\* least one character or fails, and the position never passes the end.
C26_Consumes ==
    [][TokenizeTurn => /\ lexer'.pos > lexer.pos \/ lexer'.exc # ""
                       /\ lexer'.pos <= Len(lexer.source)]_vars

\* C26: on every finite source tokenize terminates, and the outcome is
\* either a lexical failure (unexpected character, unterminated string) or
\* a token sequence in which EOF occurs exactly once, as the last token.
C26_Outcome ==
    ~Tokenizing =>
        \/ /\ lexer.exc = "Exception"
           /\ \/ lexer.msg = "Unterminated string"
              \/ \E i \in 1..Len(lexer.source) :
                    lexer.msg = "Unexpected character: " \o lexer.source[i]
        \/ /\ lexer.returned
           /\ {i \in 1..Len(lexer.tokens) : lexer.tokens[i].type = "EOF"}
                 = {Len(lexer.tokens)}

\* C24: the receiver stack is balanced: every method call and every class
\* instantiation pushes exactly one receiver and pops it on every exit
\* (fall-through, return, break/continue, error), so the stack after the
\* call equals the stack before it, and the stack is empty whenever control
\* is at a top-level statement.
C24_ReceiverStack ==
    /\ this_stack = <<>>
    /\ \A i \in Events("frame") :
          log[i].c \in {"method", "new"} =>
              /\ log[i].pushed = Append(log[i].stack_in, log[i].receiver)
              /\ log[i].stack_out = log[i].stack_in

C24_Witness ==
    \E i, j \in Events("frame") :
        /\ log[i].c = "method" /\ log[i].how \in {"Break", "Exception"}
        /\ log[i].stack_in # <<>>
        /\ log[i].stack_out = log[i].stack_in
        /\ log[j].c = "new"

\* The program around an assignment: the variables it reads and writes
\* before it, the value of its target after it
Around(target, stmts) ==
    <<VarDeclaration("x", Num(6)), VarDeclaration("y", Num(3)),
      VarDeclaration("a", ArrayLiteral(<<Num(5), Num(6)>>)),
      VarDeclaration("d", DictLiteral(<< <<Str("k"), Num(6)>> >>)),
      ClassDef("O", <<VarDeclaration("v", Num(6))>>, <<>>),
      VarDeclaration("o", NewExpression("O", <<>>)),
      FunctionDef("f", <<>>, <<println(Str("f")), Return(Num(4))>>)>>
    \o stmts \o <<println(Target(target).node)>>

Executed(target, stmts) == interpret(Interpreter, Program(Around(target, stmts)))

\* What the target holds after 6 op e
Computed(op, value) ==
    LET e == CASE value = "int" -> 2 [] value = "zero" -> 0
               [] value = "name" -> 3 [] value = "sum" -> 4
               [] value = "call" -> 4
    IN  CASE op = "+" -> 6 + e
          [] op = "-" -> 6 - e
          [] op = "*" -> 6 * e
          [] op = "/" -> IF e = 0 THEN 0 ELSE 6 \div e

\* C27: the parser turns `t op= e` (op one of + - * /, t an identifier,
\* index access or member access) into Assignment(t, BinaryOp(t', op, e))
\* where t' is structurally equal to t, so executing `t op= e` leaves the
\* same state as executing `t = t op e`.
C27_CompoundAssignment ==
    \A v \in Variants :
        written \in Written /\ written.kind = "op_assign" /\ Ended(v) =>
            LET t == Target(written.operands).node
                e == AssignValue(written.value).node
                expanded == parse_statement(ExpandedTokens(written), 0)
                run == Executed(written.operands, parsers[v].program.statements)
            IN  /\ parsers[v].error = ""
                /\ parsers[v].program =
                      Program(<<Assignment(t, BinaryOp(t, written.op, e))>>)
                /\ expanded.error = ""
                /\ run = Executed(written.operands, <<expanded.node>>)
                /\ IF written.op = "/" /\ written.value = "zero"
                   THEN run.exc = "Exception" /\ run.msg = "Division by zero"
                   ELSE /\ run.exc = "none"
                        /\ run.out =
                              (IF written.value = "call" THEN <<"f">> ELSE <<>>)
                              \o <<ToString(Computed(written.op, written.value))>>

C27_Witness ==
    /\ written \in Written
    /\ written.kind = "op_assign" /\ written.operands = "index"
    /\ written.op = "-" /\ written.value = "call"
    /\ Ended("plain")
    /\ parsers["plain"].program.statements[1].value.left
          = parsers["plain"].program.statements[1].target

\* What a loop of two turns prints when the call in its body is left by
\* break or by continue: b before the call, the callee's in, never the
\* callee's after nor the r after the call
Turns(w, x) ==
    LET turn == (IF w = "loop_before" THEN <<"b", "k", "in">> ELSE <<"b", "in">>)
    IN  IF x = "break" THEN turn ELSE turn \o turn

\* C28: a break or continue executed in a function or method body outside
\* any loop of that body is not absorbed by the call: it unwinds through
\* the call, which restores the caller's environment (and receiver stack
\* for methods), and is absorbed by the innermost loop enclosing the call
\* site in the caller.
C28_Unwinds ==
    /\ \A i \in Events("frame") :
          (log[i].c \in {"call", "method"} /\ log[i].how \in {"Break", "Continue"})
             => /\ log[i].leaves = log[i].how
                /\ log[i].exit = log[i].entry
                /\ log[i].stack_out = log[i].stack_in
    /\ \A c \in Sites, w \in Callees, x \in {"break", "continue"} :
          Line("unwind", c, w, x) =>
             CASE c \in {"while", "foreach", "try"} ->
                    last.exc = "none" /\ out = Turns(w, x) \o <<"end">>
               [] c = "inner" ->
                    /\ last.exc = "none"
                    /\ out = <<"o">> \o Turns(w, x) \o <<"p", "o">>
                             \o Turns(w, x) \o <<"p", "end">>
               [] c = "none" ->
                    /\ last.exc = (IF x = "break" THEN "Break" ELSE "Continue")
                    /\ out = Turns(w, "break")
                    /\ current_env = 1 /\ this_stack = <<>>

C28_Witness ==
    /\ Line("unwind", "inner", "method", "break")
    /\ \E i \in Events("frame") :
          /\ log[i].c = "method" /\ log[i].how = "Break"
          /\ log[i].leaves = "Break"
    /\ out[Len(out)] = "end"

\* C29: a plain (non-method) function call neither pushes nor pops the
\* receiver stack: a free function invoked from inside a method of class C
\* can read and write `_`-prefixed members of instances of C, while the
\* same function invoked from top-level code is refused.
C29_FreeFunction ==
    /\ \A i \in Events("frame") :
          log[i].c = "call" =>
             /\ log[i].inside = log[i].stack_in
             /\ log[i].stack_out = log[i].stack_in
    /\ \A x \in FreeCalls :
          Line("free", "", "", x) =>
             CASE x \in {"read_top", "write_top", "call_top", "read_other",
                         "write_other"} ->
                    /\ last.exc = "Exception" /\ out = <<>>
                    /\ \E i \in Events("member") :
                          ~log[i].ok /\ log[i].after = log[i].before
               [] x \in {"read_method", "read_same", "deep_method"} ->
                    last.exc = "none" /\ out = <<"1">>
               [] x = "write_method" -> last.exc = "none" /\ out = <<"9">>
               [] x = "call_method" -> last.exc = "none" /\ out = <<"3">>
               [] x = "after_method" ->
                    last.exc = "Exception" /\ out = <<"1">>

C29_Witness ==
    /\ Line("free", "", "", "write_method")
    /\ out = <<"9">>
    /\ \E i \in Events("frame") :
          log[i].c = "call" /\ log[i].inside # <<>>

(***************************************************************************)
(* Parser.parse ends.                                                      *)
(***************************************************************************)
Openers == {"LBRACE", "LPAREN", "LBRACKET"}

Closers == {"RBRACE", "RPAREN", "RBRACKET"}

\* How many of the first n tokens open a bracket, less those that close one
RECURSIVE Open(_, _)
Open(tokens, n) ==
    IF n = 0 THEN 0
    ELSE Open(tokens, n - 1)
         + (IF tokens[n].type \in Openers THEN 1
            ELSE IF tokens[n].type \in Closers THEN -1 ELSE 0)

\* A block, argument list or literal is open where the tokens end
Unclosed(tokens) == Open(tokens, Len(tokens)) > 0

\* The parse function raised, or left the parser further on than pos
Consumes(R, pos) == R.error # "" \/ R.pos > pos

\* C30: Parser.parse terminates on every token sequence that ends in EOF:
\* from every position a statement (the iteration of the statement and
\* block loops) and an expression (the iteration of the argument-list and
\* literal loops) consumes a token or raises, the parser never passes EOF
\* and has taken a token for every statement it has; and a block, argument
\* list or literal left unclosed at EOF ends the parse with an exception.
C30_Terminates ==
    \A v \in Variants :
        LET p == parsers[v]
        IN  /\ p.pos < Len(p.tokens)
            /\ Len(p.statements) <= p.pos
            /\ \A pos \in 0..(Len(p.tokens) - 1) :
                  /\ Consumes(parse_statement(p.tokens, pos), pos)
                  /\ Consumes(parse_expression(p.tokens, pos), pos)
                  /\ Consumes(parse_params(p.tokens, pos, <<>>), pos)
                        \/ current_token(p.tokens, pos).type = "RPAREN"
            /\ Ended(v) /\ p.error = "" =>
                  current_token(p.tokens, p.pos).type = "EOF"
            /\ Unclosed(p.tokens) /\ Ended(v) =>
                  p.error # "" /\ p.program = NoNode

C30_Witness ==
    /\ written.kind = "assign_list" /\ written.context = "func"
    /\ written.dropped > 0
    /\ Unclosed(parsers["plain"].tokens)
    /\ Ended("plain")
    /\ parsers["plain"].error # ""
    /\ current_token(parsers["plain"].tokens, parsers["plain"].pos).type = "EOF"

====
